---- MODULE Spec2Model ----
(***************************************************************************)
(* TradeEdge Pro: portfolio risk gate (engine/portfolio_risk.py), the gate *)
(* loop of generate_signals (engine/signal_generator.py), the per-scan     *)
(* RiskManager (engine/risk_manager.py) and the hash-chained audit log     *)
(* (core/audit.py).                                                        *)
(*                                                                         *)
(* Units: R-multiples are held in tenths of R (3.0R = 30), correlations in *)
(* hundredths (0.8 = 80), money in whole rupees, percentages as integers.  *)
(* Strings that the code inspects by substring (regime labels) are held as *)
(* sequences of one-character strings.                                     *)
(***************************************************************************)
EXTENDS Integers, Sequences, FiniteSets, TLC

(***************************************************************************)
(* Bounds of the model                                                     *)
(***************************************************************************)
MaxOpenTrades == 2
MaxCandidates == 3
MaxConsecutive == 4
MaxLossR == 40
MaxGainR == 0

(***************************************************************************)
(* Regime labels as character sequences; str.upper and the `in` operator   *)
(***************************************************************************)
S_TRENDING == <<"T","R","E","N","D","I","N","G">>
S_BULLISH == <<"B","U","L","L","I","S","H">>
S_RANGING == <<"R","A","N","G","I","N","G">>
S_SIDEWAYS == <<"S","I","D","E","W","A","Y","S">>
S_VOLATILE == <<"V","O","L","A","T","I","L","E">>
S_DEAD == <<"D","E","A","D">>
S_NEUTRAL == <<"N","E","U","T","R","A","L">>
S_ranging == <<"r","a","n","g","i","n","g">>

LowerToUpper ==
  [c \in {"a","b","d","e","g","h","i","l","n","o","r","s","t","u","v","w","y"} |->
     CASE c = "a" -> "A" [] c = "b" -> "B" [] c = "d" -> "D" [] c = "e" -> "E"
       [] c = "g" -> "G" [] c = "h" -> "H" [] c = "i" -> "I" [] c = "l" -> "L"
       [] c = "n" -> "N" [] c = "o" -> "O" [] c = "r" -> "R" [] c = "s" -> "S"
       [] c = "t" -> "T" [] c = "u" -> "U" [] c = "v" -> "V" [] c = "w" -> "W"
       [] OTHER -> "Y"]

StrUpper(s) ==
  [i \in 1..Len(s) |-> IF s[i] \in DOMAIN LowerToUpper THEN LowerToUpper[s[i]] ELSE s[i]]

StrContains(key, s) ==
  \E i \in 0..(Len(s) - Len(key)) : \A j \in 1..Len(key) : s[i + j] = key[j]

(***************************************************************************)
(* Universe: symbol -> sector (load_stock_universe); Universe is listed in *)
(* the order sorted() gives the symbols                                    *)
(***************************************************************************)
Universe == <<"HDFC", "ICICI", "SBI", "TCS">>
Symbols == {Universe[i] : i \in 1..Len(Universe)}
symbol_sector == [s \in Symbols |-> IF s = "TCS" THEN "IT" ELSE "Banking"]
Sectors == {"Banking", "IT"}
Directions == {"BUY", "SELL"}

SymRank(s) == CHOOSE i \in 1..Len(Universe) : Universe[i] = s

RECURSIVE InsertSorted(_, _)
InsertSorted(x, seq) ==
  IF seq = <<>> THEN <<x>>
  ELSE IF SymRank(x) <= SymRank(Head(seq)) THEN <<x>> \o seq
       ELSE <<Head(seq)>> \o InsertSorted(x, Tail(seq))

RECURSIVE SortedSyms(_)
SortedSyms(seq) == IF seq = <<>> THEN <<>> ELSE InsertSorted(Head(seq), SortedSyms(Tail(seq)))

RECURSIVE SumSeq(_)
SumSeq(seq) == IF seq = <<>> THEN 0 ELSE Head(seq) + SumSeq(Tail(seq))

(***************************************************************************)
(* PortfolioRiskManager: configuration (constructor defaults)              *)
(***************************************************************************)
TotalCapital == 100000
BaseDailyLimit == 20
weekly_loss_limit_r == 60
max_same_sector_direction == 2
max_sector_exposure_pct == 30
consecutive_loss_limit == 3
correlation_threshold == 80

DAILY_LIMITS ==
  << <<S_TRENDING, 30>>, <<S_BULLISH, 30>>, <<S_RANGING, 15>>, <<S_SIDEWAYS, 15>>,
     <<S_VOLATILE, 10>>, <<S_DEAD, 0>>, <<S_NEUTRAL, 15>> >>

VARIABLES
  daily_pnl_r, weekly_pnl_r, consecutive_losses, open_trades,
  prev_regime, current_regime, peak_capital, current_capital,
  correlation_cache,
  scan_pc, results, idx, final_results, sector_count, is_swing, max_signals,
  rm_open_trades, rm_daily_risk_used, gate_call,
  today, files, last_hash, fallback,
  t_pc, t_entry, verify_result, tamper_line, tamper_count,
  position_size,
  other_scan,
  produce, failure_tracker, nifty, regime_cache,
  filter_call, report,
  tr_lock, tr_pc, tr_out,
  risk_status

riskVars == <<daily_pnl_r, weekly_pnl_r, consecutive_losses, open_trades,
              prev_regime, current_regime, peak_capital, current_capital>>
scanVars == <<scan_pc, results, idx, final_results, sector_count, is_swing, max_signals,
              rm_open_trades, rm_daily_risk_used, gate_call>>
auditAux == <<t_pc, t_entry, verify_result, tamper_line, tamper_count>>
auditVars == <<today, files, last_hash, fallback, auditAux>>
sizeVars == <<position_size>>
monVars == <<tr_lock, tr_pc, tr_out>>
statVars == <<risk_status>>
callVars == <<filter_call, report, monVars, statVars>>
extVars == <<other_scan, produce, failure_tracker, nifty, regime_cache, callVars>>
vars == <<riskVars, correlation_cache, scanVars, auditVars, sizeVars, extVars>>

(***************************************************************************)
(* PortfolioRiskManager.daily_loss_limit_r: first key of DAILY_LIMITS, in  *)
(* dict order, that is a substring of the upper-cased regime label         *)
(***************************************************************************)
DailyLimitForExactCase(regime) ==
  LET hits == {i \in 1..Len(DAILY_LIMITS) : StrContains(DAILY_LIMITS[i][1], regime)}
  IN IF hits = {} THEN BaseDailyLimit
     ELSE DAILY_LIMITS[CHOOSE i \in hits : \A j \in hits : i <= j][2]

DailyLimitFor(regime) ==
  LET up == StrUpper(regime)
      hits == {i \in 1..Len(DAILY_LIMITS) : StrContains(DAILY_LIMITS[i][1], up)}
  IN IF hits = {} THEN BaseDailyLimit
     ELSE DAILY_LIMITS[CHOOSE i \in hits : \A j \in hits : i <= j][2]

daily_loss_limit_r == DailyLimitFor(current_regime)

CheckDailyLoss == daily_pnl_r < -daily_loss_limit_r

CheckWeeklyDrawdown == weekly_pnl_r < -weekly_loss_limit_r

CheckCircuitBreaker == consecutive_losses >= consecutive_loss_limit

SameSectorDirection(trades, sector, direction) ==
  Cardinality({i \in 1..Len(trades) :
                 trades[i].sector = sector /\ trades[i].direction = direction})

CheckConcentrationGate(sector, direction) ==
  SameSectorDirection(open_trades, sector, direction) >= max_same_sector_direction

SectorValue(trades, sector) ==
  SumSeq([i \in 1..Len(trades) |-> IF trades[i].sector = sector THEN trades[i].value ELSE 0])

CheckSectorExposureNewOnly(sector, new_position_value) ==
  new_position_value * 100 > TotalCapital * max_sector_exposure_pct

CheckSectorExposure(sector, new_position_value) ==
  (SectorValue(open_trades, sector) + new_position_value) * 100
    > TotalCapital * max_sector_exposure_pct

(***************************************************************************)
(* _check_numerical_correlation.  lookup is what _calculate_max_correlation*)
(* does on a cache miss: [ok |-> FALSE] when it raises, else the maximum   *)
(* absolute correlation.  Returns the verdict and the cache afterwards.    *)
(***************************************************************************)
CacheKeyOf(symbol, trades) ==
  <<symbol, SortedSyms([i \in 1..Len(trades) |-> trades[i].symbol])>>

CacheKey(symbol) == CacheKeyOf(symbol, open_trades)

CheckNumericalCorrelation(symbol, lookup) ==
  IF open_trades = <<>> THEN [blocked |-> FALSE, cache |-> correlation_cache, looked_up |-> FALSE]
  ELSE IF CacheKey(symbol) \in DOMAIN correlation_cache
       THEN [blocked |-> correlation_cache[CacheKey(symbol)] > correlation_threshold,
             cache |-> correlation_cache, looked_up |-> FALSE]
       ELSE IF lookup.ok
            THEN [blocked |-> lookup.corr > correlation_threshold,
                  cache |-> (CacheKey(symbol) :> lookup.corr) @@ correlation_cache,
                  looked_up |-> TRUE]
            ELSE [blocked |-> FALSE, cache |-> correlation_cache, looked_up |-> TRUE]

(***************************************************************************)
(* _calculate_max_correlation, lines 303-331.  feed is the price-history   *)
(* provider at the time of the call: raises tells that a fetch or the      *)
(* correlation arithmetic throws, has_data[s] that fetch_daily_data(s)     *)
(* returns at least 30 rows, corr[e] the absolute correlation in percent   *)
(* of the candidate's returns with those of open symbol e.  No data for    *)
(* the candidate returns 0.0, an open symbol without data is skipped.      *)
(* overlap[e] is len(aligned), the number of dates on which both return    *)
(* series have a value (line 326); the pair enters the maximum when it is  *)
(* above min_overlap (line 327).                                           *)
(***************************************************************************)
CorrValues == {0, 95}

min_overlap == 20

OverlapValues == {19, 20, 21}

AmpleOverlap == min_overlap + 1

CorrOpenSymbols == {"HDFC", "ICICI"}

PriceFeeds ==
  [raises : BOOLEAN, has_data : [Symbols -> BOOLEAN], corr : [CorrOpenSymbols -> CorrValues],
   overlap : [CorrOpenSymbols -> OverlapValues]]

MaxOf(S) == CHOOSE x \in S : \A y \in S : x >= y

CalculateMaxCorrelationFailClosed(symbol, open_symbols, feed) ==
  IF feed.raises THEN [ok |-> FALSE, corr |-> 0]
  ELSE [ok |-> TRUE,
        corr |-> MaxOf({0} \cup {IF ~(feed.has_data[symbol] /\ feed.has_data[e]) THEN 100
                                 ELSE IF feed.overlap[e] > min_overlap THEN feed.corr[e] ELSE 0 :
                                   e \in open_symbols})]

CalculateMaxCorrelation(symbol, open_symbols, feed) ==
  IF feed.raises THEN [ok |-> FALSE, corr |-> 0]
  ELSE IF ~feed.has_data[symbol] THEN [ok |-> TRUE, corr |-> 0]
  ELSE [ok |-> TRUE,
        corr |-> MaxOf({0} \cup {feed.corr[e] :
                                   e \in {o \in open_symbols :
                                            feed.has_data[o] /\ feed.overlap[o] > min_overlap}})]

OpenSymbols == {open_trades[i].symbol : i \in 1..Len(open_trades)}

(* the feeds that differ in something a lookup for symbol can see *)
FeedsFor(symbol) ==
  {f \in PriceFeeds :
     /\ f.raises => /\ \A t \in Symbols : f.has_data[t]
                    /\ \A e \in CorrOpenSymbols : f.corr[e] = 0 /\ f.overlap[e] = AmpleOverlap
     /\ \A t \in Symbols \ (OpenSymbols \cup {symbol}) : f.has_data[t]
     /\ \A e \in CorrOpenSymbols \ OpenSymbols : f.corr[e] = 0 /\ f.overlap[e] = AmpleOverlap
     /\ \A e \in CorrOpenSymbols :
          (~f.has_data[symbol] \/ ~f.has_data[e]) => f.overlap[e] = AmpleOverlap}

(***************************************************************************)
(* check_capital_concentration, lines 211-223: the top-3 share of the      *)
(* hypothetical risk set all_risks                                         *)
(***************************************************************************)
RECURSIVE SortDesc(_)
SortDesc(seq) ==
  IF seq = <<>> THEN <<>>
  ELSE LET m == CHOOSE i \in 1..Len(seq) : \A j \in 1..Len(seq) : seq[i] >= seq[j]
       IN <<seq[m]>> \o SortDesc([k \in 1..(Len(seq) - 1) |-> IF k < m THEN seq[k] ELSE seq[k + 1]])

Top3Concentrated(all_risks) ==
  LET sorted_risks == SortDesc(all_risks)
      top3_risk == SumSeq(SubSeq(sorted_risks, 1, IF Len(sorted_risks) < 3 THEN Len(sorted_risks) ELSE 3))
      total_risk == SumSeq(all_risks)
  IN total_risk # 0 /\ top3_risk * 100 > 60 * total_risk

(***************************************************************************)
(* check_capital_concentration reads self.state.open_positions, a field    *)
(* PortfolioState does not have: the attribute lookup raises               *)
(***************************************************************************)
CheckCapitalConcentration(new_position_risk) ==
  [outcome |-> "raise", error |-> "AttributeError"]

(***************************************************************************)
(* check_all_rules.  outcome is "allow" for (True, ""), "block" for        *)
(* (False, reason), "raise" when the call leaves by an exception; rule is  *)
(* the last rule reached; cache is _correlation_cache afterwards.          *)
(* After rule 6 the code reads the name new_position_risk, which is        *)
(* neither a parameter, a local nor a module global: NameError.            *)
(***************************************************************************)
CheckAllRules(sector, direction, position_value, symbol, lookup) ==
  LET corr == CheckNumericalCorrelation(symbol, lookup)
  IN IF CheckDailyLoss
     THEN [outcome |-> "block", rule |-> 1, reason |-> "Daily loss limit hit",
           cache |-> correlation_cache]
     ELSE IF CheckWeeklyDrawdown
     THEN [outcome |-> "block", rule |-> 2, reason |-> "Weekly drawdown limit hit",
           cache |-> correlation_cache]
     ELSE IF CheckCircuitBreaker
     THEN [outcome |-> "block", rule |-> 3, reason |-> "Circuit breaker",
           cache |-> correlation_cache]
     ELSE IF CheckConcentrationGate(sector, direction)
     THEN [outcome |-> "block", rule |-> 4, reason |-> "Max trades in sector direction",
           cache |-> correlation_cache]
     ELSE IF symbol # "" /\ corr.blocked
     THEN [outcome |-> "block", rule |-> 5, reason |-> "High correlation",
           cache |-> corr.cache]
     ELSE IF CheckSectorExposure(sector, position_value)
     THEN [outcome |-> "block", rule |-> 6, reason |-> "Sector exposure limit",
           cache |-> IF symbol # "" THEN corr.cache ELSE correlation_cache]
     ELSE [outcome |-> "raise", rule |-> 7, reason |-> "NameError",
           cache |-> IF symbol # "" THEN corr.cache ELSE correlation_cache]

(***************************************************************************)
(* Audit log (core/audit.py).  A line of a day's file is a record; kind is *)
(* "entry" for a line that parses to an entry object and "invalid_json"    *)
(* for a line json.loads rejects.  The constant fields versions and        *)
(* environment are left out of the entry; timestamp holds the day of       *)
(* datetime.now().  SHA-256 is taken to be collision free: a digest is     *)
(* identified with the key-sorted serialisation it was computed from.      *)
(***************************************************************************)
MaxDay == 2
Days == 1..MaxDay

GENESIS_HASH == <<0>>

Data(symbol, decision, reason, n) ==
  [symbol |-> symbol, decision |-> decision, reason |-> reason, n |-> n]

ComputeHash(entry) ==
  <<entry.timestamp, entry.event_type, entry.data, entry.prev_hash>>

NoFile == [exists |-> FALSE, lines |-> <<>>]

GetLastHashAssumed(f) == GENESIS_HASH

GetLastHash(f) ==
  IF f.exists /\ f.lines # <<>>
  THEN LET last_entry == f.lines[Len(f.lines)]
       IN IF last_entry.kind = "entry" THEN last_entry.hash ELSE GENESIS_HASH
  ELSE GENESIS_HASH

(***************************************************************************)
(* log_event on the audit state a = [files, last_hash, fallback] on day d; *)
(* ok tells whether the append to the day's file succeeds.  _last_hash is  *)
(* assigned (line 101) before the append is attempted (lines 103-106).     *)
(***************************************************************************)
MakeEntry(d, event_type, data, prev) ==
  LET e == [kind |-> "entry", timestamp |-> d, event_type |-> event_type,
            data |-> data, prev_hash |-> prev]
  IN [kind |-> "entry", timestamp |-> d, event_type |-> event_type,
      data |-> data, prev_hash |-> prev, hash |-> ComputeHash(e)]

LogEventOn(a, d, event_type, data, ok) ==
  LET entry == MakeEntry(d, event_type, data, a.last_hash)
  IN IF ok
     THEN [files |-> [a.files EXCEPT ![d] = [exists |-> TRUE, lines |-> Append(@.lines, entry)]],
           last_hash |-> entry.hash,
           fallback |-> a.fallback]
     ELSE [files |-> a.files,
           last_hash |-> entry.hash,
           fallback |-> Append(a.fallback, entry)]

AuditState == [files |-> files, last_hash |-> last_hash, fallback |-> fallback]

LogSignalDecision(a, d, symbol, decision, reason) ==
  LogEventOn(a, d, "SIGNAL_DECISION", Data(symbol, decision, reason, 0), TRUE)

LogRiskAction(a, d, action, symbol, reason) ==
  LogEventOn(a, d, "RISK_INTERVENTION", Data(symbol, action, reason, 0), TRUE)

(***************************************************************************)
(* RiskManager (engine/risk_manager.py), the instance generate_signals     *)
(* creates for each scan: capital 100000, risk_per_trade 1.0 (%).          *)
(* Prices are integers; entry = (entry_low + entry_high) / 2 is kept       *)
(* doubled (entry2) so that no half is lost.                               *)
(***************************************************************************)
RmCapital == 100000
RmRiskPerTrade == 1
MAX_SECTOR_EXPOSURE == 30
MAX_DAILY_RISK == 2
min_risk_reward == 20
max_stop_loss_pct == 5
max_open_trades == 5
MAX_SIGNALS_PER_SECTOR == 2

Abs(x) == IF x < 0 THEN -x ELSE x
Entry2(signal) == signal.entry_low + signal.entry_high
SlDistance2(signal) == Abs(Entry2(signal) - 2 * signal.stop_loss)

RmSectorValue(sector) ==
  SumSeq([i \in 1..Len(rm_open_trades) |->
            IF rm_open_trades[i].sector = sector THEN rm_open_trades[i].position_value ELSE 0])

ValidateSignal(signal, sector) ==
  IF signal.risk_reward < min_risk_reward
  THEN [valid |-> FALSE, reason |-> "R:R too low"]
  ELSE IF SlDistance2(signal) * 100 > max_stop_loss_pct * Entry2(signal)
  THEN [valid |-> FALSE, reason |-> "SL too wide"]
  ELSE IF Len(rm_open_trades) >= max_open_trades
  THEN [valid |-> FALSE, reason |-> "Max trades reached"]
  ELSE IF rm_daily_risk_used + RmRiskPerTrade > MAX_DAILY_RISK
  THEN [valid |-> FALSE, reason |-> "Daily risk cap exceeded"]
  ELSE IF sector # ""
          /\ (IF SlDistance2(signal) > 0
              THEN (RmSectorValue(sector) * SlDistance2(signal)
                      + ((RmCapital * RmRiskPerTrade) \div 100) * Entry2(signal)) * 100
                   > MAX_SECTOR_EXPOSURE * RmCapital * SlDistance2(signal)
              ELSE RmSectorValue(sector) * 100 > MAX_SECTOR_EXPOSURE * RmCapital)
  THEN [valid |-> FALSE, reason |-> "Sector exposure too high"]
  ELSE [valid |-> TRUE, reason |-> ""]

SizingMultiplierPct(regime) ==
  LET up == StrUpper(regime)
  IN IF StrContains(S_TRENDING, up) \/ StrContains(S_BULLISH, up) THEN 100
     ELSE IF StrContains(S_RANGING, up) \/ StrContains(S_SIDEWAYS, up) THEN 60
     ELSE IF StrContains(S_VOLATILE, up) THEN 50
     ELSE 80

CalculatePositionSize(signal, sector) ==
  LET v == ValidateSignal(signal, sector)
      risk_amount == (RmCapital * RmRiskPerTrade * SizingMultiplierPct(signal.market_regime)) \div 10000
      shares == (2 * risk_amount) \div SlDistance2(signal)
  IN IF ~v.valid
     THEN [shares |-> 0, position_value |-> 0, risk_amount |-> 0, valid |-> FALSE,
           rejection_reason |-> v.reason]
     ELSE IF SlDistance2(signal) = 0
     THEN [shares |-> 0, position_value |-> 0, risk_amount |-> 0, valid |-> FALSE,
           rejection_reason |-> "Invalid SL (equals entry)"]
     ELSE [shares |-> shares, position_value |-> (shares * Entry2(signal)) \div 2,
           risk_amount |-> risk_amount, valid |-> TRUE, rejection_reason |-> ""]

RmAddTrade(trades, symbol, sector, position_value) ==
  IF \E i \in 1..Len(trades) : trades[i].symbol = symbol
  THEN trades
  ELSE Append(trades, [symbol |-> symbol, sector |-> sector, position_value |-> position_value])

(***************************************************************************)
(* PortfolioRiskManager: state-changing operations                         *)
(***************************************************************************)
NoCall == [called |-> FALSE, symbol |-> "", sector |-> "", direction |-> "",
           position_value |-> 0, risk_amount |-> 0, open_before |-> <<>>,
           outcome |-> "", rule |-> 0]

PnlInputs == {-20, 20}
TradeValues == {16000}
RegimeLabels == {S_NEUTRAL, S_TRENDING}

RecordTradeResult(pnl_r) ==
  /\ scan_pc = "idle"
  /\ daily_pnl_r + pnl_r >= -MaxLossR /\ daily_pnl_r + pnl_r <= MaxGainR
  /\ weekly_pnl_r + pnl_r >= -MaxLossR /\ weekly_pnl_r + pnl_r <= MaxGainR
  /\ pnl_r < 0 => consecutive_losses < MaxConsecutive
  /\ daily_pnl_r' = daily_pnl_r + pnl_r
  /\ weekly_pnl_r' = weekly_pnl_r + pnl_r
  /\ consecutive_losses' = IF pnl_r < 0 THEN consecutive_losses + 1 ELSE 0
  /\ gate_call' = NoCall
  /\ UNCHANGED <<open_trades, prev_regime, current_regime, peak_capital, current_capital,
                 correlation_cache, scan_pc, results, idx, final_results, sector_count,
                 is_swing, max_signals, rm_open_trades, rm_daily_risk_used, auditVars, sizeVars, extVars>>

ResetDaily ==
  /\ scan_pc = "idle"
  /\ daily_pnl_r' = 0
  /\ gate_call' = NoCall
  /\ UNCHANGED <<weekly_pnl_r, consecutive_losses, open_trades, prev_regime, current_regime,
                 peak_capital, current_capital,
                 correlation_cache, scan_pc, results, idx, final_results, sector_count,
                 is_swing, max_signals, rm_open_trades, rm_daily_risk_used, auditVars, sizeVars, extVars>>

ResetWeekly ==
  /\ scan_pc = "idle"
  /\ weekly_pnl_r' = 0
  /\ consecutive_losses' = 0
  /\ gate_call' = NoCall
  /\ UNCHANGED <<daily_pnl_r, open_trades, prev_regime, current_regime,
                 peak_capital, current_capital,
                 correlation_cache, scan_pc, results, idx, final_results, sector_count,
                 is_swing, max_signals, rm_open_trades, rm_daily_risk_used, auditVars, sizeVars, extVars>>

ResetCircuitBreaker ==
  /\ scan_pc = "idle"
  /\ consecutive_losses' = 0
  /\ gate_call' = NoCall
  /\ UNCHANGED <<daily_pnl_r, weekly_pnl_r, open_trades, prev_regime, current_regime,
                 peak_capital, current_capital,
                 correlation_cache, scan_pc, results, idx, final_results, sector_count,
                 is_swing, max_signals, rm_open_trades, rm_daily_risk_used, auditVars, sizeVars, extVars>>

CheckRegimeTransition(prev, cur) ==
  /\ scan_pc = "idle"
  /\ prev_regime' = prev
  /\ current_regime' = cur
  /\ gate_call' = NoCall
  /\ UNCHANGED <<daily_pnl_r, weekly_pnl_r, consecutive_losses, open_trades,
                 peak_capital, current_capital,
                 correlation_cache, scan_pc, results, idx, final_results, sector_count,
                 is_swing, max_signals, rm_open_trades, rm_daily_risk_used, auditVars, sizeVars, extVars>>

ClearCorrelationCache ==
  /\ scan_pc = "idle"
  /\ correlation_cache' = <<>>
  /\ gate_call' = NoCall
  /\ UNCHANGED <<riskVars, scan_pc, results, idx, final_results, sector_count,
                 is_swing, max_signals, rm_open_trades, rm_daily_risk_used, auditVars, sizeVars, extVars>>

OpenTrade(symbol, sector, direction, value) ==
  [symbol |-> symbol, sector |-> sector, direction |-> direction, value |-> value]

AddOpenTrade(symbol, sector, direction, value) ==
  /\ scan_pc = "idle"
  /\ Len(open_trades) < MaxOpenTrades
  /\ open_trades' = Append(open_trades, OpenTrade(symbol, sector, direction, value))
  /\ gate_call' = NoCall
  /\ UNCHANGED <<daily_pnl_r, weekly_pnl_r, consecutive_losses, prev_regime, current_regime,
                 peak_capital, current_capital,
                 correlation_cache, scan_pc, results, idx, final_results, sector_count,
                 is_swing, max_signals, rm_open_trades, rm_daily_risk_used, auditVars, sizeVars, extVars>>

RemoveTrade(symbol) ==
  /\ scan_pc = "idle"
  /\ \E i \in 1..Len(open_trades) : open_trades[i].symbol = symbol
  /\ open_trades' = SelectSeq(open_trades, LAMBDA t : t.symbol # symbol)
  /\ gate_call' = NoCall
  /\ UNCHANGED <<daily_pnl_r, weekly_pnl_r, consecutive_losses, prev_regime, current_regime,
                 peak_capital, current_capital,
                 correlation_cache, scan_pc, results, idx, final_results, sector_count,
                 is_swing, max_signals, rm_open_trades, rm_daily_risk_used, auditVars, sizeVars, extVars>>

(***************************************************************************)
(* update_equity and the drawdown of PortfolioState.  drawdown_pct is      *)
(* (peak - current) / peak * 100, and 0 when peak <= 0; it is compared     *)
(* with a threshold t as (peak - current) * 100 < t * peak.                *)
(***************************************************************************)
MinEquity == 80000
MaxEquity == 106000
EquityInputs == {-12000, 6000}

UpdateEquityPeakKept(pnl_amount) ==
  /\ scan_pc = "idle"
  /\ current_capital + pnl_amount >= MinEquity
  /\ current_capital + pnl_amount <= MaxEquity
  /\ current_capital' = current_capital + pnl_amount
  /\ gate_call' = NoCall
  /\ UNCHANGED <<daily_pnl_r, weekly_pnl_r, consecutive_losses, open_trades,
                 prev_regime, current_regime, peak_capital,
                 correlation_cache, scan_pc, results, idx, final_results, sector_count,
                 is_swing, max_signals, rm_open_trades, rm_daily_risk_used, auditVars, sizeVars, extVars>>

UpdateEquity(pnl_amount) ==
  /\ scan_pc = "idle"
  /\ current_capital + pnl_amount >= MinEquity
  /\ current_capital + pnl_amount <= MaxEquity
  /\ current_capital' = current_capital + pnl_amount
  /\ peak_capital' = IF current_capital + pnl_amount > peak_capital
                     THEN current_capital + pnl_amount ELSE peak_capital
  /\ gate_call' = NoCall
  /\ UNCHANGED <<daily_pnl_r, weekly_pnl_r, consecutive_losses, open_trades,
                 prev_regime, current_regime,
                 correlation_cache, scan_pc, results, idx, final_results, sector_count,
                 is_swing, max_signals, rm_open_trades, rm_daily_risk_used, auditVars, sizeVars, extVars>>

DrawdownBelow(peak, current, threshold) ==
  IF peak <= 0 THEN 0 < threshold
  ELSE (peak - current) * 100 < threshold * peak

DRAWDOWN_BRACKETS == << <<5, 100>>, <<10, 70>>, <<15, 40>>, <<100, 20>> >>

DrawdownMultiplierAt(peak, current) ==
  LET hits == {i \in 1..Len(DRAWDOWN_BRACKETS) :
                 DrawdownBelow(peak, current, DRAWDOWN_BRACKETS[i][1])}
  IN IF hits = {} THEN 20
     ELSE DRAWDOWN_BRACKETS[CHOOSE i \in hits : \A j \in hits : i <= j][2]

get_drawdown_multiplier == DrawdownMultiplierAt(peak_capital, current_capital)

(***************************************************************************)
(* get_regime_multiplier: REGIME_MULTIPLIERS.get(regime.upper(), 0.7), an  *)
(* exact key lookup, in percent                                            *)
(***************************************************************************)
REGIME_MULTIPLIERS ==
  << <<S_TRENDING, 100>>, <<S_BULLISH, 100>>, <<S_RANGING, 60>>, <<S_SIDEWAYS, 60>>,
     <<S_VOLATILE, 50>>, <<S_DEAD, 0>>, <<S_NEUTRAL, 70>> >>

get_regime_multiplier(regime) ==
  LET up == StrUpper(regime)
      hits == {i \in 1..Len(REGIME_MULTIPLIERS) : REGIME_MULTIPLIERS[i][1] = up}
  IN IF hits = {} THEN 70 ELSE REGIME_MULTIPLIERS[CHOOSE i \in hits : TRUE][2]

(***************************************************************************)
(* get_status, lines 478-494: the fields that depend on the regime label.  *)
(* dailyLossLimitR is read through the property daily_loss_limit_r,        *)
(* regimeMultiplier through get_regime_multiplier(current_regime).         *)
(***************************************************************************)
NoStatus == [called |-> FALSE, currentRegime |-> <<>>, dailyLossLimitR |-> 0,
             regimeMultiplier |-> 0]

GetStatus ==
  /\ risk_status' = [called |-> TRUE, currentRegime |-> current_regime,
                     dailyLossLimitR |-> daily_loss_limit_r,
                     regimeMultiplier |-> get_regime_multiplier(current_regime)]
  /\ UNCHANGED <<riskVars, correlation_cache, scanVars, auditVars, sizeVars,
                 other_scan, produce, failure_tracker, nifty, regime_cache,
                 filter_call, report, monVars>>

(***************************************************************************)
(* A call of check_all_rules made on the shared portfolio_risk outside a   *)
(* scan.  The call has no parameter for the candidate's risk amount;       *)
(* risk_amount is what the caller computed for the candidate.  A raise     *)
(* leaves the state as the rules before it left it.                        *)
(***************************************************************************)
RiskCandidates == { <<"IT", "BUY", 20000, "TCS">>, <<"Banking", "BUY", 20000, "SBI">> }

CheckCandidate(sector, direction, position_value, symbol, risk_amount, lookup) ==
  LET r == CheckAllRules(sector, direction, position_value, symbol, lookup)
  IN /\ scan_pc = "idle"
     /\ gate_call' = [called |-> TRUE, symbol |-> symbol, sector |-> sector,
                      direction |-> direction, position_value |-> position_value,
                      risk_amount |-> risk_amount, open_before |-> open_trades,
                      outcome |-> r.outcome, rule |-> r.rule]
     /\ correlation_cache' = r.cache
     /\ UNCHANGED <<riskVars, scan_pc, results, idx, final_results, sector_count,
                    is_swing, max_signals, rm_open_trades, rm_daily_risk_used,
                    auditVars, sizeVars, extVars>>

(* the same call, rule 5 computing its correlation from the price feed *)
CheckWithFeed(c, feed) ==
  CheckCandidate(c[1], c[2], c[3], c[4], 1000,
                 CalculateMaxCorrelation(c[4], OpenSymbols, feed))

(***************************************************************************)
(* generate_signals (engine/signal_generator.py).  StartScan stands for    *)
(* lines 292-374: the produce phase, the sort and the percentile filter    *)
(* yield the list `results`, a fresh RiskManager is created and the gate   *)
(* loop is entered.  market_regime of a candidate is the classification    *)
(* the strategy gave that stock.                                           *)
(***************************************************************************)
Shapes == {"good", "lowrr", "zerosl"}
ScanRegimes == {S_TRENDING}
ScanModes == {<<TRUE, 20>>, <<FALSE, 20>>, <<FALSE, 1>>}

Candidate(symbol, direction, shape, regime) ==
  [symbol |-> symbol, sector |-> symbol_sector[symbol], signal_type |-> direction,
   risk_reward |-> IF shape = "lowrr" THEN 15 ELSE 30,
   entry_low |-> 99, entry_high |-> 101,
   stop_loss |-> IF shape = "zerosl" THEN 100 ELSE 95,
   market_regime |-> regime]

CandidatePool(regime) ==
  {Candidate(s, d, "good", regime) : s \in Symbols, d \in Directions}
    \cup {Candidate(Universe[1], "BUY", sh, regime) : sh \in {"lowrr", "zerosl"}}

CandidateLists(regime) ==
  {c \in UNION {[1..n -> CandidatePool(regime)] : n \in 0..MaxCandidates} :
     \A i, j \in 1..Len(c) : i < j => SymRank(c[i].symbol) < SymRank(c[j].symbol)}

StartScan(cands, swing, ms) ==
  /\ scan_pc = "idle"
  /\ results' = cands
  /\ is_swing' = swing
  /\ max_signals' = ms
  /\ idx' = 1
  /\ final_results' = <<>>
  /\ sector_count' = [s \in Sectors |-> 0]
  /\ rm_open_trades' = <<>>
  /\ rm_daily_risk_used' = 0
  /\ gate_call' = NoCall
  /\ scan_pc' = IF cands = <<>> THEN "done" ELSE "gate"
  /\ UNCHANGED <<riskVars, correlation_cache, auditVars, sizeVars, extVars>>

(***************************************************************************)
(* One iteration of the gate loop, lines 376-517 (archive_signal writes to *)
(* the signal archive, which is outside this model).  lookup is what the   *)
(* price-history provider does if rule 5 has to compute a correlation.     *)
(***************************************************************************)
Lookups == {[ok |-> FALSE, corr |-> 0], [ok |-> TRUE, corr |-> 0], [ok |-> TRUE, corr |-> 95]}

NextPc(i) == IF i > Len(results) THEN "done" ELSE "gate"

SetAudit(a) ==
  /\ files' = a.files
  /\ last_hash' = a.last_hash
  /\ fallback' = a.fallback

GateBreak ==
  /\ scan_pc = "gate"
  /\ Len(final_results) >= max_signals
  /\ scan_pc' = "done"
  /\ UNCHANGED <<riskVars, correlation_cache, results, idx, final_results, sector_count,
                 is_swing, max_signals, rm_open_trades, rm_daily_risk_used, gate_call,
                 auditVars, sizeVars, extVars>>

GateSkipSector ==
  LET c == results[idx]
  IN /\ scan_pc = "gate"
     /\ Len(final_results) < max_signals
     /\ sector_count[c.sector] >= MAX_SIGNALS_PER_SECTOR
     /\ SetAudit(LogSignalDecision(AuditState, today, c.symbol, "SKIPPED", "Max signals for sector"))
     /\ idx' = idx + 1
     /\ scan_pc' = NextPc(idx + 1)
     /\ UNCHANGED <<riskVars, correlation_cache, results, final_results, sector_count,
                    is_swing, max_signals, rm_open_trades, rm_daily_risk_used, gate_call,
                    today, auditAux, sizeVars, extVars>>

GateIntraday ==
  LET c == results[idx]
  IN /\ scan_pc = "gate"
     /\ Len(final_results) < max_signals
     /\ sector_count[c.sector] < MAX_SIGNALS_PER_SECTOR
     /\ ~is_swing
     /\ final_results' = Append(final_results, c)
     /\ sector_count' = [sector_count EXCEPT ![c.sector] = @ + 1]
     /\ SetAudit(LogSignalDecision(AuditState, today, c.symbol, "GENERATED", "Intraday Bias"))
     /\ idx' = idx + 1
     /\ scan_pc' = NextPc(idx + 1)
     /\ UNCHANGED <<riskVars, correlation_cache, results,
                    is_swing, max_signals, rm_open_trades, rm_daily_risk_used, gate_call,
                    today, auditAux, sizeVars, extVars>>

GateSwing(lookup) ==
  LET c == results[idx]
      v == ValidateSignal(c, c.sector)
      ps == CalculatePositionSize(c, c.sector)
      pv == IF ps.valid THEN ps.position_value ELSE 0
      r == CheckAllRules(c.sector, c.signal_type, pv, c.symbol, lookup)
      call == [called |-> TRUE, symbol |-> c.symbol, sector |-> c.sector,
               direction |-> c.signal_type, position_value |-> pv,
               risk_amount |-> ps.risk_amount, open_before |-> open_trades,
               outcome |-> r.outcome, rule |-> r.rule]
  IN /\ scan_pc = "gate"
     /\ Len(final_results) < max_signals
     /\ sector_count[c.sector] < MAX_SIGNALS_PER_SECTOR
     /\ is_swing
     /\ IF ~v.valid
        THEN /\ SetAudit(LogSignalDecision(AuditState, today, c.symbol, "REJECTED", v.reason))
             /\ idx' = idx + 1
             /\ scan_pc' = NextPc(idx + 1)
             /\ UNCHANGED <<riskVars, correlation_cache, final_results, sector_count,
                            rm_open_trades, rm_daily_risk_used, gate_call>>
        ELSE IF r.outcome = "raise"
        THEN /\ scan_pc' = "crashed"
             /\ correlation_cache' = r.cache
             /\ gate_call' = call
             /\ UNCHANGED <<riskVars, idx, final_results, sector_count,
                            rm_open_trades, rm_daily_risk_used, files, last_hash, fallback>>
        ELSE IF r.outcome = "block"
        THEN /\ SetAudit(LogSignalDecision(
                           LogRiskAction(AuditState, today, "BLOCK", c.symbol, r.reason),
                           today, c.symbol, "REJECTED", r.reason))
             /\ correlation_cache' = r.cache
             /\ gate_call' = call
             /\ idx' = idx + 1
             /\ scan_pc' = NextPc(idx + 1)
             /\ UNCHANGED <<riskVars, final_results, sector_count,
                            rm_open_trades, rm_daily_risk_used>>
        ELSE IF ps.valid
        THEN /\ SetAudit(LogSignalDecision(AuditState, today, c.symbol, "APPROVED", ""))
             /\ rm_open_trades' = RmAddTrade(rm_open_trades, c.symbol, c.sector, ps.position_value)
             /\ rm_daily_risk_used' =
                  IF \E i \in 1..Len(rm_open_trades) : rm_open_trades[i].symbol = c.symbol
                  THEN rm_daily_risk_used ELSE rm_daily_risk_used + RmRiskPerTrade
             /\ open_trades' = Append(open_trades,
                                      OpenTrade(c.symbol, c.sector, c.signal_type, ps.position_value))
             /\ final_results' = Append(final_results, c)
             /\ sector_count' = [sector_count EXCEPT ![c.sector] = @ + 1]
             /\ correlation_cache' = r.cache
             /\ gate_call' = call
             /\ idx' = idx + 1
             /\ scan_pc' = NextPc(idx + 1)
             /\ UNCHANGED <<daily_pnl_r, weekly_pnl_r, consecutive_losses, prev_regime,
                            current_regime, peak_capital, current_capital>>
        ELSE /\ SetAudit(LogSignalDecision(
                           LogSignalDecision(AuditState, today, c.symbol, "APPROVED", ""),
                           today, c.symbol, "REJECTED", "Position Size Invalid"))
             /\ correlation_cache' = r.cache
             /\ gate_call' = call
             /\ idx' = idx + 1
             /\ scan_pc' = NextPc(idx + 1)
             /\ UNCHANGED <<riskVars, final_results, sector_count,
                            rm_open_trades, rm_daily_risk_used>>
     /\ UNCHANGED <<results, is_swing, max_signals, today, auditAux, sizeVars, extVars>>

GateStep == GateBreak \/ GateSkipSector \/ GateIntraday \/ (\E lookup \in Lookups : GateSwing(lookup))

(***************************************************************************)
(* Two callers of generate_signals.  The scheduler's job runs the scan in  *)
(* a worker thread (scheduler.py lines 101-105, asyncio.to_thread) and the *)
(* GET /swing handler runs it on the event-loop thread (routes.py lines    *)
(* 223-227).  Neither caller nor generate_signals takes a lock, and both   *)
(* scans use the module's one portfolio_risk and one audit_logger.  The    *)
(* scan variables hold the locals of the scan whose thread is running;     *)
(* other_scan holds the locals of the other thread's scan and the name of  *)
(* that thread.  ContextSwitch is the interpreter handing the processor to *)
(* the other thread between two iterations of the gate loop.               *)
(***************************************************************************)
ScanThreads == {"scheduler", "api"}

OtherThread(t) == IF t = "scheduler" THEN "api" ELSE "scheduler"

NoScan ==
  [thread |-> "api", scan_pc |-> "idle", results |-> <<>>, idx |-> 1,
   final_results |-> <<>>, sector_count |-> [s \in Sectors |-> 0],
   is_swing |-> TRUE, max_signals |-> 20,
   rm_open_trades |-> <<>>, rm_daily_risk_used |-> 0]

RunningThread == OtherThread(other_scan.thread)

ContextSwitch ==
  /\ other_scan' =
       [thread |-> RunningThread, scan_pc |-> scan_pc, results |-> results, idx |-> idx,
        final_results |-> final_results, sector_count |-> sector_count,
        is_swing |-> is_swing, max_signals |-> max_signals,
        rm_open_trades |-> rm_open_trades, rm_daily_risk_used |-> rm_daily_risk_used]
  /\ scan_pc' = other_scan.scan_pc
  /\ results' = other_scan.results
  /\ idx' = other_scan.idx
  /\ final_results' = other_scan.final_results
  /\ sector_count' = other_scan.sector_count
  /\ is_swing' = other_scan.is_swing
  /\ max_signals' = other_scan.max_signals
  /\ rm_open_trades' = other_scan.rm_open_trades
  /\ rm_daily_risk_used' = other_scan.rm_daily_risk_used
  /\ UNCHANGED <<riskVars, correlation_cache, gate_call, auditVars, sizeVars,
                 produce, failure_tracker, nifty, regime_cache, callVars>>

(***************************************************************************)
(* The regime snapshot.  nifty is what get_regime_for_nifty would compute  *)
(* from the index right now (change_pct in tenths of a percent),           *)
(* regime_cache is _nifty_regime_cache: fresh tells that its timestamp is  *)
(* less than 900 seconds old.                                              *)
(***************************************************************************)
NoSnapshot == [regime |-> <<>>, change_pct |-> 0]

Snapshots ==
  << [regime |-> S_TRENDING, change_pct |-> 0], [regime |-> S_RANGING, change_pct |-> -20] >>

GetCachedRegime ==
  IF regime_cache.fresh
  THEN [regime |-> regime_cache.regime, cache |-> regime_cache]
  ELSE [regime |-> nifty, cache |-> [regime |-> nifty, fresh |-> TRUE]]

(***************************************************************************)
(* The data sources and the failure tracker all workers share.  market     *)
(* tells, per symbol, what the outside world holds for the scan: "signal"  *)
(* (Yahoo has valid bars and the strategy finds a setup), "nodata" (Yahoo  *)
(* has no valid bars) or "raises" (Yahoo has bars and the analysis         *)
(* raises).  The secondary sources deliver nothing: the NSE library is not *)
(* importable and no Alpha Vantage key is configured, so that fetch        *)
(* returns None and is recorded as a failure.  A scan is shorter than the  *)
(* recovery period, so a degraded source stays skipped until the scan      *)
(* ends.                                                                   *)
(***************************************************************************)
SOURCES == {"yahoo", "alpha_vantage"}
failure_threshold == 2
MaxFailures == 3
min_signal_score == 70

MarketKinds == {"signal", "nodata", "raises"}
Markets == {m \in [Symbols -> MarketKinds] : m["TCS"] = "signal"}

SymbolScore ==
  [s \in Symbols |-> CASE s = "HDFC" -> 82 [] s = "ICICI" -> 75 [] s = "SBI" -> 75 [] OTHER -> 65]

(* cooled tells that last_failure is set and lies recovery_seconds or more *)
(* in the past                                                             *)
NewMetrics == [consecutive_failures |-> 0, status |-> "healthy", cooled |-> FALSE]

ShouldSkipSource(tr, source) ==
  IF tr[source].status = "healthy" THEN FALSE
  ELSE IF tr[source].status = "down" THEN TRUE
  ELSE ~tr[source].cooled

RecordSuccess(tr, source) ==
  [tr EXCEPT ![source] = [consecutive_failures |-> 0, status |-> "healthy", cooled |-> @.cooled]]

RecordFailureAbove(tr, source) ==
  [tr EXCEPT ![source] =
     [consecutive_failures |-> @.consecutive_failures + 1,
      status |-> IF @.consecutive_failures + 1 > failure_threshold
                 THEN "degraded" ELSE @.status,
      cooled |-> FALSE]]

RecordFailure(tr, source) ==
  [tr EXCEPT ![source] =
     [consecutive_failures |-> @.consecutive_failures + 1,
      status |-> IF @.consecutive_failures + 1 >= failure_threshold
                 THEN "degraded" ELSE @.status,
      cooled |-> FALSE]]

GetDegradedSources(tr) == {source \in SOURCES : tr[source].status \in {"degraded", "down"}}

MarkSourceDown(tr, source) == [tr EXCEPT ![source].status = "down"]

MarkSourceHealthy(tr, source) ==
  [tr EXCEPT ![source].status = "healthy", ![source].consecutive_failures = 0]

FetchDailyData(symbol, market, tr) ==
  LET yahoo_tried == ~ShouldSkipSource(tr, "yahoo")
      yahoo_ok == yahoo_tried /\ market[symbol] # "nodata"
      tr1 == IF ~yahoo_tried THEN tr
             ELSE IF yahoo_ok THEN RecordSuccess(tr, "yahoo")
             ELSE RecordFailure(tr, "yahoo")
      tr2 == IF yahoo_ok \/ ShouldSkipSource(tr1, "alpha_vantage") THEN tr1
             ELSE RecordFailure(tr1, "alpha_vantage")
  IN [df |-> yahoo_ok, tracker |-> tr2]

(***************************************************************************)
(* The tracker used from several threads (data_source_monitor.py).  Every  *)
(* public method runs inside `with self._lock`, a threading.Lock, which is *)
(* not reentrant: a method body is one step, enabled when the lock is      *)
(* free.  tr_pc[t] is where thread t is: idle, inside fetch_daily_data     *)
(* between should_skip_source and record_success / record_failure for one  *)
(* source ("fetching"), or inside get_full_status holding the lock and     *)
(* about to call get_degraded_sources ("full_status").  tr_out is the last *)
(* completed call and what it returned.                                    *)
(***************************************************************************)
TrackerThreads == {"worker1", "worker2", "api"}

IdleCall == [at |-> "idle", source |-> ""]

NoOp == [op |-> "", source |-> "", thread |-> "", result |-> <<>>]

TrackerFrame ==
  UNCHANGED <<riskVars, correlation_cache, scanVars, auditVars, sizeVars,
              other_scan, produce, nifty, regime_cache, filter_call, report, statVars>>

(* fetch_daily_data lines 199, 214, 234: the skip test for one source *)
FetchBegin(t, source) ==
  /\ tr_pc[t] = IdleCall
  /\ tr_lock = "free"
  /\ tr_pc' = [tr_pc EXCEPT ![t] = IF ShouldSkipSource(failure_tracker, source) THEN IdleCall
                                   ELSE [at |-> "fetching", source |-> source]]
  /\ tr_out' = [op |-> "should_skip_source", source |-> source, thread |-> t,
                result |-> ShouldSkipSource(failure_tracker, source)]
  /\ UNCHANGED <<failure_tracker, tr_lock>>
  /\ TrackerFrame

(* lines 201-209: the fetch is over and its outcome is recorded *)
FetchEnd(t, ok) ==
  /\ tr_pc[t].at = "fetching"
  /\ tr_lock = "free"
  /\ ~ok => failure_tracker[tr_pc[t].source].consecutive_failures < MaxFailures
  /\ failure_tracker' = IF ok THEN RecordSuccess(failure_tracker, tr_pc[t].source)
                        ELSE RecordFailure(failure_tracker, tr_pc[t].source)
  /\ tr_pc' = [tr_pc EXCEPT ![t] = IdleCall]
  /\ tr_out' = [op |-> IF ok THEN "record_success" ELSE "record_failure",
                source |-> tr_pc[t].source, thread |-> t, result |-> <<>>]
  /\ UNCHANGED tr_lock
  /\ TrackerFrame

MarkDown(source) ==
  /\ tr_lock = "free"
  /\ failure_tracker' = MarkSourceDown(failure_tracker, source)
  /\ tr_out' = [op |-> "mark_source_down", source |-> source, thread |-> "api", result |-> <<>>]
  /\ UNCHANGED <<tr_lock, tr_pc>>
  /\ TrackerFrame

MarkHealthy(source) ==
  /\ tr_lock = "free"
  /\ failure_tracker' = MarkSourceHealthy(failure_tracker, source)
  /\ tr_out' = [op |-> "mark_source_healthy", source |-> source, thread |-> "api", result |-> <<>>]
  /\ UNCHANGED <<tr_lock, tr_pc>>
  /\ TrackerFrame

(* recovery_seconds go by since the last failure of a source *)
CooldownPasses(source) ==
  /\ failure_tracker[source].consecutive_failures > 0
  /\ ~failure_tracker[source].cooled
  /\ failure_tracker' = [failure_tracker EXCEPT ![source].cooled = TRUE]
  /\ UNCHANGED monVars
  /\ TrackerFrame

(* get_full_status lines 206-209: takes the lock and builds `sources` *)
GetFullStatusEnter(t) ==
  /\ tr_pc[t] = IdleCall
  /\ tr_lock = "free"
  /\ tr_lock' = t
  /\ tr_pc' = [tr_pc EXCEPT ![t] = [at |-> "full_status", source |-> ""]]
  /\ UNCHANGED <<failure_tracker, tr_out>>
  /\ TrackerFrame

FullStatus(tr) ==
  [overall |-> IF GetDegradedSources(tr) = {} THEN "healthy" ELSE "degraded",
   degradedSources |-> GetDegradedSources(tr),
   sources |-> tr,
   config |-> [failureThreshold |-> failure_threshold]]

(* get_degraded_sources lines 191-197, called by a thread of its own       *)
(* (scheduler.py line 52) or from inside get_full_status (line 210); in    *)
(* the second case its return lets get_full_status build the report,       *)
(* leave its `with` block and return (lines 212-220)                       *)
GetDegradedSourcesCall(t) ==
  /\ tr_pc[t] = IdleCall \/ tr_pc[t].at = "full_status"
  /\ tr_lock = "free"
  /\ tr_out' = IF tr_pc[t].at = "full_status"
                THEN [op |-> "get_full_status", source |-> "", thread |-> t,
                      result |-> FullStatus(failure_tracker)]
                ELSE [op |-> "get_degraded_sources", source |-> "", thread |-> t,
                      result |-> GetDegradedSources(failure_tracker)]
  /\ tr_pc' = [tr_pc EXCEPT ![t] = IdleCall]
  /\ UNCHANGED <<failure_tracker, tr_lock>>
  /\ TrackerFrame

(***************************************************************************)
(* analyze_stock_swing for one symbol under the regime object it was       *)
(* handed: what it returns (kind "candidate" with the candidate, or kind   *)
(* "none" and why) and the tracker it leaves.  Every exception is caught   *)
(* at line 212 and turned into None.                                       *)
(***************************************************************************)
NoCandidate == [symbol |-> "", sector |-> "", score |-> 0, regime |-> NoSnapshot]

AnalyzeStockSwing(symbol, regime, market, tr) ==
  LET f == FetchDailyData(symbol, market, tr)
      none(why) == [symbol |-> symbol, kind |-> "none", why |-> why,
                    candidate |-> NoCandidate, tracker |-> f.tracker]
  IN IF ~f.df THEN none("nodata")
     ELSE IF regime.change_pct < -15 THEN none("circuit")
     ELSE IF market[symbol] = "raises" THEN none("raised")
     ELSE IF SymbolScore[symbol] < min_signal_score THEN none("lowscore")
     ELSE [symbol |-> symbol, kind |-> "candidate", why |-> "",
           candidate |-> [symbol |-> symbol, sector |-> symbol_sector[symbol],
                          score |-> SymbolScore[symbol], regime |-> regime],
           tracker |-> f.tracker]

(***************************************************************************)
(* sort by score, descending and stable (lines 356-359), and the           *)
(* percentile filter.  int(len * (1 - 0.92)) is computed in binary         *)
(* floating point: 1 - 0.92 is 0.07999999999999996, so the product falls   *)
(* just below 8 * len / 100 and truncates to (8 * len - 1) div 100.        *)
(***************************************************************************)
RECURSIVE InsertByScore(_, _)
InsertByScore(x, seq) ==
  IF seq = <<>> THEN <<x>>
  ELSE IF Head(seq).score > x.score THEN <<Head(seq)>> \o InsertByScore(x, Tail(seq))
  ELSE <<x>> \o seq

RECURSIVE SortByScore(_)
SortByScore(seq) ==
  IF seq = <<>> THEN <<>>
  ELSE InsertByScore(Head(seq), SortByScore(Tail(seq)))

percentile == 92

Max(a, b) == IF a >= b THEN a ELSE b

CutoffIdx(n) == Max(1, ((100 - percentile) * n - 1) \div 100)

FilterByPercentile(rs) ==
  IF Len(rs) < 5 THEN rs
  ELSE LET scores == SortDesc([i \in 1..Len(rs) |-> rs[i].score])
           threshold == scores[CutoffIdx(Len(rs))]
       IN SelectSeq(rs, LAMBDA r : r.score >= threshold)

(***************************************************************************)
(* filter_by_percentile called on its own.  generate_signals sorts the     *)
(* candidates by score, highest first (lines 356-359), before it filters   *)
(* them (line 362), so the lists the filter receives are score-descending: *)
(* a copies of the highest score, then b of the middle one, then c of the  *)
(* lowest, every score at or above min_signal_score.  filter_call holds    *)
(* the call's argument and its return value until the caller takes it.     *)
(***************************************************************************)
MaxFilterLen == 25

FilterScores == <<82, 75, 70>>

ScoreRun(a, b, c) ==
  [i \in 1..(a + b + c) |->
     [symbol |-> i,
      score |-> IF i <= a THEN FilterScores[1]
                ELSE IF i <= a + b THEN FilterScores[2] ELSE FilterScores[3]]]

FilterInputs ==
  {ScoreRun(a, b, c) : <<a, b, c>> \in
     {t \in (0..MaxFilterLen) \X (0..MaxFilterLen) \X (0..MaxFilterLen) :
        t[1] + t[2] + t[3] <= MaxFilterLen}}

NoFilterCall == [done |-> FALSE, input |-> <<>>, output |-> <<>>]

FilterCall(rs) ==
  /\ ~filter_call.done
  /\ filter_call' = [done |-> TRUE, input |-> rs, output |-> FilterByPercentile(rs)]
  /\ UNCHANGED <<riskVars, correlation_cache, scanVars, auditVars, sizeVars,
                 other_scan, produce, failure_tracker, nifty, regime_cache, report, monVars, statVars>>

FilterReturn ==
  /\ filter_call.done
  /\ filter_call' = NoFilterCall
  /\ UNCHANGED <<riskVars, correlation_cache, scanVars, auditVars, sizeVars,
                 other_scan, produce, failure_tracker, nifty, regime_cache, report, monVars, statVars>>

(***************************************************************************)
(* The produce phase of generate_signals, lines 292-362.  The regime is    *)
(* fetched once (line 305) and handed to every submitted call (line 329).  *)
(* The executor starts the calls in submission order on at most `workers`  *)
(* threads, so the calls in progress are the first `workers` unfinished    *)
(* symbols, and any of them may be the next to finish.  completed holds    *)
(* the finished futures the as_completed loop has not yet seen; outcome    *)
(* remembers what each worker returned.                                    *)
(***************************************************************************)
WorkerPoolSizes == {1, 10, 40}

NoProduce ==
  [pc |-> "idle", workers |-> 0, market |-> [s \in Symbols |-> "signal"],
   regime |-> NoSnapshot, regime_fetches |-> 0, analysed |-> {}, completed |-> {},
   outcome |-> [s \in Symbols |-> "pending"], results |-> <<>>]

StartProduce(market, workers) ==
  /\ produce.pc = "idle"
  /\ produce' = [NoProduce EXCEPT !.pc = "scanning", !.workers = workers, !.market = market,
                                  !.regime = GetCachedRegime.regime, !.regime_fetches = 1]
  /\ regime_cache' = GetCachedRegime.cache
  /\ UNCHANGED <<riskVars, correlation_cache, scanVars, auditVars, sizeVars,
                 other_scan, failure_tracker, nifty, callVars>>

InProgress(symbol) ==
  /\ symbol \notin produce.analysed
  /\ Cardinality({t \in Symbols \ produce.analysed : SymRank(t) < SymRank(symbol)})
       < produce.workers

WorkerRegimeRefetched == GetCachedRegime.regime

WorkerRegime == produce.regime

RunWorker(symbol) ==
  LET r == AnalyzeStockSwing(symbol, WorkerRegime, produce.market, failure_tracker)
  IN /\ produce.pc = "scanning"
     /\ InProgress(symbol)
     /\ produce' = [produce EXCEPT
                      !.analysed = @ \cup {symbol},
                      !.completed = @ \cup {[symbol |-> symbol, kind |-> r.kind,
                                             candidate |-> r.candidate]},
                      !.outcome[symbol] = IF r.kind = "candidate" THEN "candidate" ELSE r.why]
     /\ failure_tracker' = r.tracker
     /\ UNCHANGED <<riskVars, correlation_cache, scanVars, auditVars, sizeVars,
                    other_scan, nifty, regime_cache, callVars>>

CollectedAlways(rs, future) == Append(rs, future.candidate)

Collected(rs, future) ==
  IF future.kind = "candidate" THEN Append(rs, future.candidate) ELSE rs

CollectResult ==
  /\ produce.pc = "scanning"
  /\ \E future \in produce.completed :
       produce' = [produce EXCEPT !.completed = @ \ {future},
                                  !.results = Collected(@, future)]
  /\ UNCHANGED <<riskVars, correlation_cache, scanVars, auditVars, sizeVars,
                 other_scan, failure_tracker, nifty, regime_cache, callVars>>

FinishProduce ==
  /\ produce.pc = "scanning"
  /\ produce.analysed = Symbols
  /\ produce.completed = {}
  /\ produce' = [produce EXCEPT !.pc = "produced",
                                !.results = FilterByPercentile(SortByScore(@))]
  /\ UNCHANGED <<riskVars, correlation_cache, scanVars, auditVars, sizeVars,
                 other_scan, failure_tracker, nifty, regime_cache, callVars>>

(* the index moves, the cache entry turns 15 minutes old, another caller   *)
(* (GET /health, GET /nifty-trend) asks for the regime                     *)
NiftyMoves(snapshot) ==
  /\ snapshot # nifty
  /\ nifty' = snapshot
  /\ UNCHANGED <<riskVars, correlation_cache, scanVars, auditVars, sizeVars,
                 other_scan, produce, failure_tracker, regime_cache, callVars>>

ExpireRegimeCache ==
  /\ regime_cache.fresh
  /\ regime_cache' = [regime_cache EXCEPT !.fresh = FALSE]
  /\ UNCHANGED <<riskVars, correlation_cache, scanVars, auditVars, sizeVars,
                 other_scan, produce, failure_tracker, nifty, callVars>>

ReadRegime ==
  /\ ~regime_cache.fresh
  /\ regime_cache' = GetCachedRegime.cache
  /\ UNCHANGED <<riskVars, correlation_cache, scanVars, auditVars, sizeVars,
                 other_scan, produce, failure_tracker, nifty, callVars>>

(***************************************************************************)
(* Position sizing outside a scan.  position_size holds the last result:   *)
(* via is "rm" for RiskManager.calculate_position_size and "route" for the *)
(* POST /calculate-position handler; outcome is "result" when a            *)
(* PositionSize / PositionSizeResponse is returned and "http422" when the  *)
(* request model's validator (routes.py lines 68-72) rejects the request   *)
(* before the handler runs.  zero_sl tells that entry equals the stop,     *)
(* regime is the signal's market_regime, and peak_capital and              *)
(* current_capital are the equity fields at the time of the call.          *)
(***************************************************************************)
NoSizing ==
  [called |-> FALSE, via |-> "", outcome |-> "", zero_sl |-> FALSE, regime |-> <<>>,
   sl_distance2 |-> 0, peak_capital |-> 0, current_capital |-> 0,
   shares |-> 0, position_value |-> 0, risk_amount |-> 0, valid |-> FALSE,
   rejection_reason |-> ""]

SizingRegimes == {S_TRENDING, S_BULLISH, S_RANGING, S_SIDEWAYS, S_VOLATILE, S_DEAD, S_NEUTRAL}

CalculatePosition(signal, sector) ==
  LET ps == CalculatePositionSize(signal, sector)
  IN /\ scan_pc = "idle"
     /\ position_size' =
          [called |-> TRUE, via |-> "rm", outcome |-> "result",
           zero_sl |-> (SlDistance2(signal) = 0), regime |-> signal.market_regime,
           sl_distance2 |-> SlDistance2(signal),
           peak_capital |-> peak_capital, current_capital |-> current_capital,
           shares |-> ps.shares, position_value |-> ps.position_value,
           risk_amount |-> ps.risk_amount, valid |-> ps.valid,
           rejection_reason |-> ps.rejection_reason]
     /\ UNCHANGED <<riskVars, correlation_cache, scanVars, auditVars, extVars>>

RouteRequests ==
  {[capital |-> 100000, risk_percent |-> 1, entry |-> 1000, stop_loss |-> sl] :
     sl \in {950, 1000}}

CalculatePositionRoute(request) ==
  LET sl_distance == Abs(request.entry - request.stop_loss)
      risk_amount == (request.capital * request.risk_percent) \div 100
      shares == risk_amount \div sl_distance
      base == [NoSizing EXCEPT !.called = TRUE, !.via = "route",
                               !.zero_sl = (request.entry = request.stop_loss),
                               !.sl_distance2 = 2 * sl_distance]
  IN /\ scan_pc = "idle"
     /\ position_size' =
          IF request.entry = request.stop_loss
          THEN [base EXCEPT !.outcome = "http422"]
          ELSE IF sl_distance = 0
          THEN [base EXCEPT !.outcome = "result",
                            !.rejection_reason = "Stop loss cannot equal entry"]
          ELSE [base EXCEPT !.outcome = "result", !.shares = shares,
                            !.position_value = shares * request.entry,
                            !.risk_amount = risk_amount, !.valid = TRUE]
     /\ UNCHANGED <<riskVars, correlation_cache, scanVars, auditVars, extVars>>

(***************************************************************************)
(* verify_audit_chain: one pass over the lines with the running prev_hash. *)
(* An invalid line is reported and leaves prev_hash as it was.  errors     *)
(* holds <<line number, kind>> pairs in the order the code appends them.   *)
(* A line that is JSON but no object makes entry.get raise AttributeError, *)
(* and an entry without a hash makes the hash-mismatch message raise       *)
(* TypeError (stored_hash[:16] on None); the outer except of lines 184-185 *)
(* catches both, appends a file read error and ends the pass.  Missing is  *)
(* the value of a field the entry does not have.                           *)
(***************************************************************************)
Missing == <<>>

LineRaises(entry) == entry.kind = "not_object" \/ (entry.kind = "entry" /\ entry.hash = Missing)

RECURSIVE VerifyRelinked(_, _, _, _)
VerifyRelinked(lines, i, prev_hash, errors) ==
  IF i > Len(lines) THEN errors
  ELSE LET entry == lines[i]
       IN IF entry.kind # "entry"
          THEN VerifyRelinked(lines, i + 1, prev_hash, Append(errors, <<i, "invalid_json">>))
          ELSE LET e1 == IF entry.prev_hash # prev_hash
                         THEN Append(errors, <<i, "prev_hash">>) ELSE errors
                   e2 == IF entry.hash # ComputeHash(entry)
                         THEN Append(e1, <<i, "hash">>) ELSE e1
               IN VerifyRelinked(lines, i + 1, ComputeHash(entry), e2)

RECURSIVE VerifyLines(_, _, _, _)
VerifyLines(lines, i, prev_hash, errors) ==
  IF i > Len(lines) THEN errors
  ELSE LET entry == lines[i]
       IN IF entry.kind = "invalid_json"
          THEN VerifyLines(lines, i + 1, prev_hash, Append(errors, <<i, "invalid_json">>))
          ELSE IF entry.kind = "not_object"
          THEN Append(errors, <<i, "file_read_error">>)
          ELSE LET e1 == IF entry.prev_hash # prev_hash
                         THEN Append(errors, <<i, "prev_hash">>) ELSE errors
                   e2 == IF entry.hash # ComputeHash(entry)
                         THEN Append(e1, <<i, "hash">>) ELSE e1
               IN IF entry.hash = Missing
                  THEN Append(e1, <<i, "file_read_error">>)
                  ELSE VerifyLines(lines, i + 1, entry.hash, e2)

VerifyAuditChainLinksOnly(f) ==
  IF ~f.exists
  THEN [done |-> TRUE, raised |-> FALSE, valid |-> FALSE, errors |-> << <<0, "not_found">> >>]
  ELSE LET errors == SelectSeq(VerifyLines(f.lines, 1, GENESIS_HASH, <<>>),
                               LAMBDA e : e[2] # "hash")
       IN [done |-> TRUE, raised |-> FALSE, valid |-> (Len(errors) = 0), errors |-> errors]

VerifyAuditChainUncaught(f) ==
  IF ~f.exists
  THEN [done |-> TRUE, raised |-> FALSE, valid |-> FALSE, errors |-> << <<0, "not_found">> >>]
  ELSE LET errors == VerifyLines(f.lines, 1, GENESIS_HASH, <<>>)
       IN [done |-> TRUE, raised |-> (\E i \in 1..Len(f.lines) : LineRaises(f.lines[i])),
           valid |-> (Len(errors) = 0), errors |-> errors]

VerifyAuditChain(f) ==
  IF ~f.exists
  THEN [done |-> TRUE, raised |-> FALSE, valid |-> FALSE, errors |-> << <<0, "not_found">> >>]
  ELSE LET errors == VerifyLines(f.lines, 1, GENESIS_HASH, <<>>)
       IN [done |-> TRUE, raised |-> FALSE, valid |-> (Len(errors) = 0), errors |-> errors]

NoResult == [done |-> FALSE, raised |-> FALSE, valid |-> FALSE, errors |-> <<>>]

(***************************************************************************)
(* Audit operations.  LogEvent is one whole log_event call by the only     *)
(* writer; Restart is a process restart, which constructs the AuditLogger  *)
(* again (__init__ reads the last hash of today's file); NextDay is        *)
(* midnight; Verify runs verify_audit_chain on today's file.               *)
(***************************************************************************)
MaxEntries == 4
MaxFallback == 2
MaxTampers == 2

EventInputs ==
  { <<"SIGNAL_DECISION", Data("TCS", "APPROVED", "", 0)>>,
    <<"RISK_INTERVENTION", Data("TCS", "BLOCK", "Circuit breaker", 0)>>,
    <<"CIRCUIT_BREAKER_RESET", Data("", "", "API", 3)>> }

Threads == {"scan", "api"}

NoEntry == MakeEntry(0, "", Data("", "", "", 0), GENESIS_HASH)

TodayLines == files[today].lines

LogEvent(ev, ok) ==
  /\ scan_pc = "idle"
  /\ \A t \in Threads : t_pc[t] = "idle"
  /\ ok => Len(TodayLines) < MaxEntries
  /\ ~ok => Len(fallback) < MaxFallback
  /\ SetAudit(LogEventOn(AuditState, today, ev[1], ev[2], ok))
  /\ verify_result' = NoResult
  /\ UNCHANGED <<riskVars, correlation_cache, scanVars, sizeVars, extVars, today, t_pc, t_entry,
                 tamper_line, tamper_count>>

Restart ==
  /\ scan_pc = "idle"
  /\ \A t \in Threads : t_pc[t] = "idle"
  /\ last_hash' = GetLastHash(files[today])
  /\ UNCHANGED <<riskVars, correlation_cache, scanVars, sizeVars, extVars, today, files, fallback, auditAux>>

NextDay ==
  /\ scan_pc = "idle"
  /\ \A t \in Threads : t_pc[t] = "idle"
  /\ today < MaxDay
  /\ today' = today + 1
  /\ verify_result' = NoResult
  /\ UNCHANGED <<riskVars, correlation_cache, scanVars, sizeVars, extVars, files, last_hash, fallback,
                 t_pc, t_entry, tamper_line, tamper_count>>

Verify ==
  /\ scan_pc = "idle"
  /\ verify_result' = VerifyAuditChain(files[today])
  /\ UNCHANGED <<riskVars, correlation_cache, scanVars, sizeVars, extVars, today, files, last_hash, fallback,
                 t_pc, t_entry, tamper_line, tamper_count>>

(***************************************************************************)
(* log_event run by several threads on the shared audit_logger, which      *)
(* holds no lock: line 90-97 reads _last_hash into the entry (LogBuild),   *)
(* lines 100-101 compute the hash and assign _last_hash (LogHash), lines   *)
(* 103-106 append the line (LogAppend).                                    *)
(***************************************************************************)
LogBuild(t, ev) ==
  /\ scan_pc = "idle"
  /\ t_pc[t] = "idle"
  /\ Len(TodayLines) + Cardinality({u \in Threads : t_pc[u] # "idle"}) < MaxEntries
  /\ t_entry' = [t_entry EXCEPT ![t] = [kind |-> "entry", timestamp |-> today,
                                        event_type |-> ev[1], data |-> ev[2],
                                        prev_hash |-> last_hash,
                                        hash |-> GENESIS_HASH]]
  /\ t_pc' = [t_pc EXCEPT ![t] = "built"]
  /\ UNCHANGED <<riskVars, correlation_cache, scanVars, sizeVars, extVars, today, files, last_hash, fallback,
                 verify_result, tamper_line, tamper_count>>

LogHash(t) ==
  /\ t_pc[t] = "built"
  /\ t_entry' = [t_entry EXCEPT ![t].hash = ComputeHash(t_entry[t])]
  /\ last_hash' = ComputeHash(t_entry[t])
  /\ t_pc' = [t_pc EXCEPT ![t] = "hashed"]
  /\ UNCHANGED <<riskVars, correlation_cache, scanVars, sizeVars, extVars, today, files, fallback,
                 verify_result, tamper_line, tamper_count>>

LogAppend(t) ==
  /\ t_pc[t] = "hashed"
  /\ files' = [files EXCEPT ![today] = [exists |-> TRUE, lines |-> Append(@.lines, t_entry[t])]]
  /\ t_entry' = [t_entry EXCEPT ![t] = NoEntry]
  /\ t_pc' = [t_pc EXCEPT ![t] = "idle"]
  /\ verify_result' = NoResult
  /\ UNCHANGED <<riskVars, correlation_cache, scanVars, sizeVars, extVars, today, last_hash, fallback,
                 tamper_line, tamper_count>>

(***************************************************************************)
(* Edits made to today's audit file from outside the logger: the payload,  *)
(* the stored hash or the prev_hash of a line is overwritten, or a line is *)
(* damaged so that it no longer parses.  tamper_line is k when the only    *)
(* edit so far changed the payload of line k of a file that verified, and  *)
(* -1 after any other edit.                                                *)
(***************************************************************************)
SetLine(i, line) ==
  files' = [files EXCEPT ![today] = [exists |-> TRUE, lines |-> [@.lines EXCEPT ![i] = line]]]

HashChoices(i) ==
  {GENESIS_HASH, ComputeHash(TodayLines[i])}
    \cup (IF i > 1 THEN {TodayLines[i - 1].hash} ELSE {})

Tamper(i, line, payload_only) ==
  /\ scan_pc = "idle"
  /\ \A t \in Threads : t_pc[t] = "idle"
  /\ tamper_count < MaxTampers
  /\ i \in 1..Len(TodayLines)
  /\ line # TodayLines[i]
  /\ SetLine(i, line)
  /\ tamper_count' = tamper_count + 1
  /\ tamper_line' = IF payload_only /\ tamper_count = 0 /\ VerifyAuditChain(files[today]).valid
                    THEN i ELSE -1
  /\ verify_result' = NoResult
  /\ UNCHANGED <<riskVars, correlation_cache, scanVars, sizeVars, extVars, today, last_hash, fallback,
                 t_pc, t_entry>>

TamperPayload(i, ev) ==
  /\ i \in 1..Len(TodayLines)
  /\ TodayLines[i].kind = "entry"
  /\ Tamper(i, [TodayLines[i] EXCEPT !.event_type = ev[1], !.data = ev[2]], TRUE)

TamperHash(i) ==
  /\ i \in 1..Len(TodayLines)
  /\ \E h \in HashChoices(i) : Tamper(i, [TodayLines[i] EXCEPT !.hash = h], FALSE)

TamperPrevHash(i) ==
  /\ i \in 1..Len(TodayLines)
  /\ \E h \in HashChoices(i) : Tamper(i, [TodayLines[i] EXCEPT !.prev_hash = h], FALSE)

CorruptLine(i) ==
  /\ i \in 1..Len(TodayLines)
  /\ Tamper(i, [TodayLines[i] EXCEPT !.kind = "invalid_json"], FALSE)

NonObjectLine(i) ==
  /\ i \in 1..Len(TodayLines)
  /\ Tamper(i, [TodayLines[i] EXCEPT !.kind = "not_object"], FALSE)

DropHash(i) ==
  /\ i \in 1..Len(TodayLines)
  /\ TodayLines[i].kind = "entry"
  /\ Tamper(i, [TodayLines[i] EXCEPT !.hash = Missing], FALSE)

DropPrevHash(i) ==
  /\ i \in 1..Len(TodayLines)
  /\ TodayLines[i].kind = "entry"
  /\ Tamper(i, [TodayLines[i] EXCEPT !.prev_hash = Missing], FALSE)

TruncateFile ==
  /\ scan_pc = "idle"
  /\ tamper_count < MaxTampers
  /\ Len(TodayLines) > 0
  /\ files' = [files EXCEPT ![today] = [exists |-> TRUE, lines |-> <<>>]]
  /\ tamper_count' = tamper_count + 1
  /\ tamper_line' = -1
  /\ verify_result' = NoResult
  /\ UNCHANGED <<riskVars, correlation_cache, scanVars, sizeVars, extVars, today, last_hash, fallback,
                 t_pc, t_entry>>

(***************************************************************************)
(* POST /audit/reset-circuit-breaker (routes.py lines 871-893), the only   *)
(* caller of reset_circuit_breaker: log_event writes the entry with the    *)
(* count read at that moment (lines 881-884), then the counter is cleared  *)
(* (line 887).  The handler has no await between the two, so no other      *)
(* request runs in between; ok tells whether the append to the day's file  *)
(* succeeds.  resetBy is held in the reason field of the payload.          *)
(***************************************************************************)
ResetCircuitBreakerUnlogged(ok) ==
  /\ scan_pc = "idle"
  /\ \A t \in Threads : t_pc[t] = "idle"
  /\ consecutive_losses' = 0
  /\ gate_call' = NoCall
  /\ UNCHANGED <<daily_pnl_r, weekly_pnl_r, open_trades, prev_regime, current_regime,
                 peak_capital, current_capital, correlation_cache,
                 scan_pc, results, idx, final_results, sector_count,
                 is_swing, max_signals, rm_open_trades, rm_daily_risk_used,
                 auditVars, sizeVars, extVars>>

ResetCircuitBreakerRoute(ok) ==
  /\ scan_pc = "idle"
  /\ \A t \in Threads : t_pc[t] = "idle"
  /\ ok => Len(TodayLines) < MaxEntries
  /\ ~ok => Len(fallback) < MaxFallback
  /\ SetAudit(LogEventOn(AuditState, today, "CIRCUIT_BREAKER_RESET",
                         Data("", "", "API", consecutive_losses), ok))
  /\ consecutive_losses' = 0
  /\ gate_call' = NoCall
  /\ verify_result' = NoResult
  /\ UNCHANGED <<daily_pnl_r, weekly_pnl_r, open_trades, prev_regime, current_regime,
                 peak_capital, current_capital, correlation_cache,
                 scan_pc, results, idx, final_results, sector_count,
                 is_swing, max_signals, rm_open_trades, rm_daily_risk_used,
                 today, t_pc, t_entry, tamper_line, tamper_count, sizeVars, extVars>>

(***************************************************************************)
(* get_compliance_report, lines 191-271.  A calendar date is <<year,       *)
(* month, day>>; day 1 of the model is FirstDay, so the file of model day  *)
(* d is the file of the calendar date d - 1 days after it, and every other *)
(* date has no file.  The loop steps from one date to the next with the    *)
(* expression of lines 261-263.  The route (routes.py lines 846-850)       *)
(* rejects end < start and spans over 365 days before the call.            *)
(***************************************************************************)
FirstDay == <<2024, 1, 28>>

DateOf(d) == <<FirstDay[1], FirstDay[2], FirstDay[3] + d - 1>>

ReportDates ==
  { <<2024, 1, 27>>, <<2024, 1, 28>>, <<2024, 1, 29>>, <<2024, 1, 30>>, <<2024, 1, 31>>,
    <<2024, 2, 1>> }

DateLE(a, b) ==
  \/ a[1] < b[1]
  \/ a[1] = b[1] /\ a[2] < b[2]
  \/ a[1] = b[1] /\ a[2] = b[2] /\ a[3] <= b[3]

FileOn(date) ==
  IF \E d \in Days : DateOf(d) = date
  THEN files[CHOOSE d \in Days : DateOf(d) = date]
  ELSE NoFile

(* lines 261-263 *)
NextCurrent(current) ==
  IF current[3] < 28 THEN <<current[1], current[2], current[3] + 1>>
  ELSE IF current[2] < 12 THEN <<current[1], current[2] + 1, 1>>
  ELSE <<current[1] + 1, 1, 1>>

(* the event-count pass, lines 237-257: a line that is not JSON is passed  *)
(* over, a JSON line that is no object is counted and then ends the pass   *)
RECURSIVE CountEvents(_, _)
CountEvents(lines, i) ==
  IF i > Len(lines) THEN 0
  ELSE IF lines[i].kind = "invalid_json" THEN CountEvents(lines, i + 1)
  ELSE IF lines[i].kind = "not_object" THEN 1
  ELSE 1 + CountEvents(lines, i + 1)

MaxReportDays == 365

DayReport(current) ==
  LET log_file == FileOn(current)
      v == VerifyAuditChain(log_file)
  IN IF log_file.exists
     THEN [date |-> current, fileExists |-> TRUE, eventCount |-> CountEvents(log_file.lines, 1),
           chainValid |-> v.valid,
           errors |-> SubSeq(v.errors, 1, IF Len(v.errors) < 5 THEN Len(v.errors) ELSE 5)]
     ELSE [date |-> current, fileExists |-> FALSE, eventCount |-> 0, chainValid |-> TRUE,
           errors |-> <<>>]

RECURSIVE ReportLoop(_, _, _)
ReportLoop(current, end_date, days) ==
  IF ~DateLE(current, end_date) THEN days
  ELSE LET days2 == Append(days, DayReport(current))
       IN IF Len(days2) > MaxReportDays THEN days2
          ELSE ReportLoop(NextCurrent(current), end_date, days2)

GetComplianceReport(start_date, end_date) ==
  LET days == ReportLoop(start_date, end_date, <<>>)
      all_valid == \A i \in 1..Len(days) : days[i].chainValid
  IN [done |-> TRUE, startDate |-> start_date, endDate |-> end_date, days |-> days,
      totalEvents |-> SumSeq([i \in 1..Len(days) |-> days[i].eventCount]),
      chainIntegrityStatus |-> IF all_valid THEN "VERIFIED" ELSE "COMPROMISED"]

NoReport ==
  [done |-> FALSE, startDate |-> FirstDay, endDate |-> FirstDay, days |-> <<>>,
   totalEvents |-> 0, chainIntegrityStatus |-> ""]

(* GET /audit/compliance-report; report holds the response until it is sent *)
ComplianceReport(start_date, end_date) ==
  /\ ~report.done
  /\ DateLE(start_date, end_date)
  /\ report' = GetComplianceReport(start_date, end_date)
  /\ UNCHANGED <<riskVars, correlation_cache, scanVars, auditVars, sizeVars,
                 other_scan, produce, failure_tracker, nifty, regime_cache, filter_call, monVars, statVars>>

ReportReturn ==
  /\ report.done
  /\ report' = NoReport
  /\ UNCHANGED <<riskVars, correlation_cache, scanVars, auditVars, sizeVars,
                 other_scan, produce, failure_tracker, nifty, regime_cache, filter_call, monVars, statVars>>

(***************************************************************************)
(* Initial state: a freshly constructed PortfolioRiskManager and           *)
(* AuditLogger on day 1 with no audit file on disk                         *)
(***************************************************************************)
Init ==
  /\ daily_pnl_r = 0
  /\ weekly_pnl_r = 0
  /\ consecutive_losses = 0
  /\ open_trades = <<>>
  /\ prev_regime = S_NEUTRAL
  /\ current_regime = S_NEUTRAL
  /\ peak_capital = 100000
  /\ current_capital = 100000
  /\ correlation_cache = <<>>
  /\ scan_pc = "idle"
  /\ results = <<>>
  /\ idx = 1
  /\ final_results = <<>>
  /\ sector_count = [s \in Sectors |-> 0]
  /\ is_swing = TRUE
  /\ max_signals = 20
  /\ rm_open_trades = <<>>
  /\ rm_daily_risk_used = 0
  /\ gate_call = NoCall
  /\ today = 1
  /\ files = [d \in Days |-> NoFile]
  /\ last_hash = GENESIS_HASH
  /\ fallback = <<>>
  /\ t_pc = [t \in Threads |-> "idle"]
  /\ t_entry = [t \in Threads |-> NoEntry]
  /\ verify_result = NoResult
  /\ tamper_line = 0
  /\ tamper_count = 0
  /\ position_size = NoSizing
  /\ other_scan = NoScan
  /\ produce = NoProduce
  /\ failure_tracker = [src \in SOURCES |-> NewMetrics]
  /\ tr_lock = "free"
  /\ tr_pc = [t \in TrackerThreads |-> IdleCall]
  /\ tr_out = NoOp
  /\ risk_status = NoStatus
  /\ nifty = Snapshots[1]
  /\ regime_cache = [regime |-> NoSnapshot, fresh |-> FALSE]
  /\ filter_call = NoFilterCall
  /\ report = NoReport

HeldSymbols == {"HDFC", "ICICI", "TCS"}

Hydrate ==
  \E s \in HeldSymbols, d \in {"BUY"}, v \in TradeValues : AddOpenTrade(s, symbol_sector[s], d, v)

Next ==
  \/ \E pnl \in PnlInputs : RecordTradeResult(pnl)
  \/ Hydrate
  \/ \E reg \in ScanRegimes : \E cands \in CandidateLists(reg) :
       \E mode \in ScanModes : StartScan(cands, mode[1], mode[2])
  \/ GateStep

Spec == Init /\ [][Next]_vars

(* one writer, one day, every append succeeds *)
NextAuditDay ==
  \/ \E ev \in EventInputs : LogEvent(ev, TRUE)
  \/ Restart
  \/ Verify

SpecAuditDay == Init /\ [][NextAuditDay]_vars

(* one writer, one day, appends may fail *)
NextAuditFail ==
  \/ \E ev \in EventInputs, ok \in BOOLEAN : LogEvent(ev, ok)
  \/ Restart
  \/ Verify

SpecAuditFail == Init /\ [][NextAuditFail]_vars

(* one writer, every append succeeds, the date changes *)
NextAuditRoll ==
  \/ \E ev \in EventInputs : LogEvent(ev, TRUE)
  \/ NextDay
  \/ Restart
  \/ Verify

SpecAuditRoll == Init /\ [][NextAuditRoll]_vars

(* two threads inside log_event, one day, every append succeeds *)
NextAuditMT ==
  \/ \E t \in Threads, ev \in EventInputs : LogBuild(t, ev)
  \/ \E t \in Threads : LogHash(t)
  \/ \E t \in Threads : LogAppend(t)
  \/ Verify

SpecAuditMT == Init /\ [][NextAuditMT]_vars

(* the scheduler's scan and an API request's scan over the same market data:  *)
(* the job always asks for swing signals with the default limit, the routes   *)
(* GET /swing and GET /intraday-bias pass the request's limit                 *)
TwoScanLists ==
  {c \in CandidateLists(S_TRENDING) :
     /\ Len(c) >= 1
     /\ \A i \in 1..Len(c) : c[i] = Candidate(c[i].symbol, "BUY", "good", S_TRENDING)}

ThreadModes(t) ==
  IF t = "scheduler" THEN {<<TRUE, 20>>} ELSE {<<TRUE, 10>>, <<FALSE, 10>>, <<FALSE, 1>>}

NextTwoScans ==
  \/ \E cands \in TwoScanLists : \E mode \in ThreadModes(RunningThread) :
       StartScan(cands, mode[1], mode[2])
  \/ GateStep
  \/ ContextSwitch

SpecTwoScans == Init /\ [][NextTwoScans]_vars

(* one produce phase while the index moves and the regime cache ages *)
NextProduce ==
  \/ \E market \in Markets, workers \in WorkerPoolSizes : StartProduce(market, workers)
  \/ \E symbol \in Symbols : RunWorker(symbol)
  \/ CollectResult
  \/ FinishProduce
  \/ \E i \in 1..Len(Snapshots) : NiftyMoves(Snapshots[i])
  \/ ExpireRegimeCache
  \/ ReadRegime

SpecProduce == Init /\ [][NextProduce]_vars

(* one produce phase whose workers, collecting loop and final sort are      *)
(* scheduled until they finish                                              *)
ScanStep == (\E symbol \in Symbols : RunWorker(symbol)) \/ CollectResult \/ FinishProduce

NextProduceScan ==
  \/ \E market \in Markets, workers \in WorkerPoolSizes : StartProduce(market, workers)
  \/ \E symbol \in Symbols : RunWorker(symbol)
  \/ CollectResult
  \/ FinishProduce

SpecProduceLive == Init /\ [][NextProduceScan]_vars /\ WF_vars(ScanStep)

(* verification of files that were edited after they were written *)
VerifyEvents ==
  { <<"SIGNAL_DECISION", Data("TCS", "APPROVED", "", 0)>>,
    <<"RISK_INTERVENTION", Data("TCS", "BLOCK", "Circuit breaker", 0)>> }

NextVerify ==
  \/ \E ev \in VerifyEvents : LogEvent(ev, TRUE)
  \/ \E i \in 1..MaxEntries, ev \in VerifyEvents : TamperPayload(i, ev)
  \/ \E i \in 1..MaxEntries : TamperHash(i)
  \/ \E i \in 1..MaxEntries : TamperPrevHash(i)
  \/ \E i \in 1..MaxEntries : CorruptLine(i)
  \/ Verify

SpecVerify == Init /\ [][NextVerify]_vars

(* verification of files holding lines of any shape *)
FileEvent == <<"SIGNAL_DECISION", Data("TCS", "APPROVED", "", 0)>>

NextVerifyFiles ==
  \/ LogEvent(FileEvent, TRUE)
  \/ \E i \in 1..MaxEntries : CorruptLine(i)
  \/ \E i \in 1..MaxEntries : NonObjectLine(i)
  \/ \E i \in 1..MaxEntries : DropHash(i)
  \/ \E i \in 1..MaxEntries : DropPrevHash(i)
  \/ TruncateFile
  \/ Verify

SpecVerifyFiles == Init /\ [][NextVerifyFiles]_vars

(* compliance reports over files written on successive days; no file      *)
(* changes while a response is being held                                  *)
NextReport ==
  \/ ~report.done /\ LogEvent(FileEvent, TRUE)
  \/ ~report.done /\ NextDay
  \/ ~report.done /\ \E i \in 1..MaxEntries : CorruptLine(i)
  \/ \E start_date \in ReportDates, end_date \in ReportDates :
       ComplianceReport(start_date, end_date)
  \/ ReportReturn

SpecReport == Init /\ [][NextReport]_vars

(* trade results and operator resets of the circuit breaker *)
MaxResets == 3

NextReset ==
  \/ \E pnl \in PnlInputs : RecordTradeResult(pnl)
  \/ ResetDaily
  \/ \E ok \in BOOLEAN :
       /\ Len(TodayLines) + Len(fallback) < MaxResets
       /\ ResetCircuitBreakerRoute(ok)

SpecReset == Init /\ [][NextReset]_vars

(* the failure tracker under concurrent fetches and operator calls *)
NextTracker ==
  \/ \E t \in TrackerThreads \ {"api"}, source \in SOURCES : FetchBegin(t, source)
  \/ \E t \in TrackerThreads \ {"api"}, ok \in BOOLEAN : FetchEnd(t, ok)
  \/ \E source \in SOURCES : MarkDown(source)
  \/ \E source \in SOURCES : MarkHealthy(source)
  \/ \E source \in SOURCES : CooldownPasses(source)
  \/ \E t \in TrackerThreads : GetDegradedSourcesCall(t)

SpecTracker == Init /\ [][NextTracker]_vars

(* the same with GET /data-source-status; a thread that can take a step    *)
(* eventually takes one                                                    *)
TrackerStep(t) == GetFullStatusEnter(t) \/ GetDegradedSourcesCall(t)

NextTrackerStatus ==
  \/ NextTracker
  \/ GetFullStatusEnter("api")

SpecTrackerStatus ==
  Init /\ [][NextTrackerStatus]_vars /\ \A t \in TrackerThreads : WF_vars(TrackerStep(t))

(* filter_by_percentile applied to every score-descending list. *)
NextFilter ==
  \/ \E rs \in FilterInputs : FilterCall(rs)
  \/ FilterReturn

SpecFilter == Init /\ [][NextFilter]_vars

(* check_all_rules against open positions, rule 5 fed by the price history *)
NextCorrelation ==
  \/ \E sym \in CorrOpenSymbols :
       /\ sym \notin OpenSymbols
       /\ sym = "ICICI" => "HDFC" \in OpenSymbols
       /\ AddOpenTrade(sym, symbol_sector[sym], "BUY", 16000)
  \/ RemoveTrade("ICICI")
  \/ ClearCorrelationCache
  \/ \E c \in RiskCandidates : \E feed \in FeedsFor(c[4]) : CheckWithFeed(c, feed)

SpecCorrelation == Init /\ [][NextCorrelation]_vars

(* the portfolio risk manager driven operation by operation, no scan *)
RiskPnlInputs == {-25, -5, 5}
RiskRegimes == {S_NEUTRAL, S_TRENDING, S_RANGING}

NextRisk ==
  \/ \E pnl \in RiskPnlInputs : RecordTradeResult(pnl)
  \/ ResetDaily
  \/ ResetWeekly
  \/ ResetCircuitBreaker
  \/ \E cur \in RiskRegimes : CheckRegimeTransition(current_regime, cur)
  \/ UpdateEquity(-12000)
  \/ AddOpenTrade("HDFC", symbol_sector["HDFC"], "BUY", 16000)
  \/ RemoveTrade("HDFC")
  \/ \E c \in RiskCandidates :
       CheckCandidate(c[1], c[2], c[3], c[4], 1000, [ok |-> FALSE, corr |-> 0])

SpecRisk == Init /\ [][NextRisk]_vars

(* equity updates and position sizing, no scan *)
NextSizing ==
  \/ \E a \in EquityInputs : UpdateEquity(a)
  \/ \E sh \in Shapes, reg \in SizingRegimes :
       CalculatePosition(Candidate("TCS", "BUY", sh, reg), symbol_sector["TCS"])
  \/ \E request \in RouteRequests : CalculatePositionRoute(request)

SpecSizing == Init /\ [][NextSizing]_vars

(***************************************************************************)
(* The block condition of each rule, for the candidate of the last         *)
(* check_all_rules call of the gate (gate_call) and the open positions the *)
(* call saw.  Rule 5 is read off the cache the call left behind: a failed  *)
(* lookup leaves no entry and counts as uncorrelated.  Rule 7 takes the    *)
(* risk amounts pos.get('risk_amount', 0) of the open positions, which     *)
(* add_open_trade never sets, plus the candidate's computed risk amount.   *)
(***************************************************************************)
RiskAmounts(trades) == [i \in 1..Len(trades) |-> 0]

RuleHolds(n) ==
  LET c == gate_call
      key == CacheKeyOf(c.symbol, c.open_before)
  IN CASE n = 1 -> CheckDailyLoss
       [] n = 2 -> CheckWeeklyDrawdown
       [] n = 3 -> CheckCircuitBreaker
       [] n = 4 -> SameSectorDirection(c.open_before, c.sector, c.direction)
                     >= max_same_sector_direction
       [] n = 5 -> /\ c.symbol # ""
                   /\ c.open_before # <<>>
                   /\ key \in DOMAIN correlation_cache
                   /\ correlation_cache[key] > correlation_threshold
       [] n = 6 -> (SectorValue(c.open_before, c.sector) + c.position_value) * 100
                     > TotalCapital * max_sector_exposure_pct
       [] OTHER -> /\ Len(c.open_before) >= 2
                   /\ c.risk_amount > 0
                   /\ Top3Concentrated(RiskAmounts(c.open_before) \o <<c.risk_amount>>)

Rules == 1..7
SomeRuleHolds == \E n \in Rules : RuleHolds(n)
LowestRule == CHOOSE n \in Rules : RuleHolds(n) /\ \A m \in Rules : RuleHolds(m) => n <= m

(***************************************************************************)
(* C1: check_all_rules always returns a decision and never raises: it      *)
(* answers (True, "") when no rule's block condition holds and             *)
(* (False, reason) otherwise, so no candidate stops the gate loop.         *)
(***************************************************************************)
C1_AlwaysDecides ==
  /\ scan_pc # "crashed"
  /\ gate_call.called =>
       /\ gate_call.outcome \in {"allow", "block"}
       /\ (gate_call.outcome = "allow") = ~SomeRuleHolds

(***************************************************************************)
(* C2: whenever at least one rule's block condition holds, check_all_rules *)
(* returns (False, reason) with the reason of the lowest-numbered rule     *)
(* whose condition holds, and no later rule is evaluated.                  *)
(***************************************************************************)
C2_LowestRuleBlocks ==
  (gate_call.called /\ SomeRuleHolds) =>
     /\ gate_call.outcome = "block"
     /\ gate_call.rule = LowestRule

(* the same statement for rules 1 to 6 only, which the code satisfies *)
RulesOneToSixInOrder ==
  (gate_call.called /\ \E n \in 1..6 : RuleHolds(n)) =>
     /\ gate_call.outcome = "block"
     /\ gate_call.rule = LowestRule

(***************************************************************************)
(* C9: in the gate pass a BLOCK leaves every PortfolioState field          *)
(* unchanged, and a candidate no rule blocks (an ALLOW) is appended to the *)
(* open positions, everything else unchanged, before the next candidate    *)
(* is evaluated.                                                           *)
(***************************************************************************)
GateChecked == scan_pc = "gate" /\ is_swing /\ gate_call' # gate_call /\ gate_call'.called

RuleHoldsAfter(n) == RuleHolds(n)'

C9_GateFrameEffect ==
  [][GateChecked =>
       IF \E n \in Rules : RuleHoldsAfter(n)
       THEN UNCHANGED riskVars
       ELSE /\ open_trades' = Append(open_trades,
                                     OpenTrade(gate_call'.symbol, gate_call'.sector,
                                               gate_call'.direction, gate_call'.position_value))
            /\ UNCHANGED <<daily_pnl_r, weekly_pnl_r, consecutive_losses, prev_regime,
                           current_regime, peak_capital, current_capital>>]_vars

(***************************************************************************)
(* C10: with max_same_sector_direction = 2, a candidate in (S, D) that     *)
(* passes every other rule is allowed while fewer than two positions are   *)
(* open in (S, D), and is blocked by rule 4 once two are.                  *)
(***************************************************************************)
C10_TwoPerSectorDirection ==
  (gate_call.called /\ \A n \in Rules \ {4} : ~RuleHolds(n)) =>
     IF SameSectorDirection(gate_call.open_before, gate_call.sector, gate_call.direction) < 2
     THEN gate_call.outcome = "allow"
     ELSE gate_call.outcome = "block" /\ gate_call.rule = 4

(***************************************************************************)
(* A valid chain: every line is an entry whose stored hash is the hash of  *)
(* its other fields and whose prev_hash is the stored hash of the line     *)
(* before it, the genesis value for the first line.                        *)
(***************************************************************************)
ChainOK(lines) ==
  \A i \in 1..Len(lines) :
    /\ lines[i].kind = "entry"
    /\ lines[i].hash = ComputeHash(lines[i])
    /\ lines[i].prev_hash = IF i = 1 THEN GENESIS_HASH ELSE lines[i - 1].hash

ErrorLines(res) == {res.errors[k][1] : k \in 1..Len(res.errors)}

C4_ValidIffChainOK ==
  (verify_result.done /\ files[today].exists) =>
    (verify_result.valid <=> ChainOK(TodayLines))

C4_Witness ==
  /\ verify_result.done
  /\ ~verify_result.valid
  /\ Len(TodayLines) >= 2
  /\ \A i \in 1..Len(TodayLines) :
       TodayLines[i].kind = "entry" /\ TodayLines[i].hash = ComputeHash(TodayLines[i])

(***************************************************************************)
(* C5 as claimed: after the payload of one entry of a valid file was       *)
(* changed, verify_audit_chain reports that line and every later line.     *)
(***************************************************************************)
C5_LaterLinesReported ==
  (verify_result.done /\ tamper_line > 0) =>
    \A j \in tamper_line..Len(TodayLines) : j \in ErrorLines(verify_result)

(***************************************************************************)
(* C5 amended: after the payload of one entry of a valid file was changed, *)
(* verify_audit_chain returns isValid = False and reports exactly that     *)
(* entry's line, as a hash mismatch; no later line is reported.            *)
(***************************************************************************)
C5_TamperedLineReported ==
  (verify_result.done /\ tamper_line > 0) =>
    /\ ~verify_result.valid
    /\ verify_result.errors = << <<tamper_line, "hash">> >>

C5_Witness ==
  /\ verify_result.done
  /\ tamper_line > 0
  /\ tamper_line < Len(TodayLines)

SectorOverCap(trades, sector) ==
  SectorValue(trades, sector) * 100 > TotalCapital * max_sector_exposure_pct

PositionValues == {0, 1, 20000, 100000}

Rule7Blocks ==
  /\ Len(gate_call.open_before) >= 2
  /\ Top3Concentrated(RiskAmounts(gate_call.open_before) \o <<gate_call.risk_amount>>)

C12_Rule7Decides ==
  (gate_call.called /\ \A n \in 1..6 : ~RuleHolds(n)) =>
     IF Rule7Blocks
     THEN gate_call.outcome = "block" /\ gate_call.rule = 7
     ELSE gate_call.outcome = "allow"

(***************************************************************************)
(* C13: rule 1 blocks exactly when daily_pnl_r < -dailyLimit(regime),      *)
(* where dailyLimit is 3.0 for a label containing TRENDING or BULLISH, 1.5 *)
(* for RANGING or SIDEWAYS, 1.0 for VOLATILE, 0 for DEAD, the table's 1.5  *)
(* for NEUTRAL, matched as a substring of the upper-cased label, and the   *)
(* base default 2.0 when no key matches.                                   *)
(***************************************************************************)
S_TrendingBullish ==
  <<"T","r","e","n","d","i","n","g"," ","(","B","u","l","l","i","s","h",")">>
S_CALM == <<"C","A","L","M">>

LimitLabels == SizingRegimes \cup {S_ranging, S_TrendingBullish, S_CALM}

ClaimedDailyLimit(regime) ==
  LET up == StrUpper(regime)
  IN IF StrContains(S_TRENDING, up) \/ StrContains(S_BULLISH, up) THEN 30
     ELSE IF StrContains(S_RANGING, up) \/ StrContains(S_SIDEWAYS, up) THEN 15
     ELSE IF StrContains(S_VOLATILE, up) THEN 10
     ELSE IF StrContains(S_DEAD, up) THEN 0
     ELSE IF StrContains(S_NEUTRAL, up) THEN 15
     ELSE BaseDailyLimit

GainRecorded == weekly_pnl_r' > weekly_pnl_r /\ daily_pnl_r' > daily_pnl_r

C14_BreakerTripsAndClears ==
  /\ [](gate_call.called /\ consecutive_losses >= consecutive_loss_limit =>
          /\ gate_call.outcome = "block"
          /\ (~RuleHolds(1) /\ ~RuleHolds(2)) => gate_call.rule = 3)
  /\ [][GainRecorded => consecutive_losses' = 0]_vars
  /\ [](gate_call.called /\ weekly_pnl_r < 0 /\ consecutive_losses = 0 /\ ~SomeRuleHolds =>
          gate_call.outcome = "allow")

(***************************************************************************)
(* C15: a tripped circuit breaker (consecutive_losses >= limit) is armed   *)
(* again only by reset_circuit_breaker or reset_weekly.                    *)
(***************************************************************************)
C15_BreakerLatched ==
  [][(CheckCircuitBreaker /\ ~CheckCircuitBreaker') =>
       (ResetCircuitBreaker \/ ResetWeekly)]_vars

(***************************************************************************)
(* C16: once rule 1 has tripped, it stays tripped until reset_daily: no    *)
(* other operation makes check_all_rules stop blocking on the daily loss.  *)
(***************************************************************************)
C16_DailyHaltLatched ==
  [][(CheckDailyLoss /\ ~CheckDailyLoss') => ResetDaily]_vars

(***************************************************************************)
(* C17: every candidate the gate has evaluated has a SIGNAL_DECISION entry *)
(* in today's audit file by the time the gate moves to the next candidate, *)
(* the scan returns or the scan fails.                                     *)
(***************************************************************************)
DecisionLogged(symbol) ==
  \E k \in 1..Len(TodayLines) :
    /\ TodayLines[k].event_type = "SIGNAL_DECISION"
    /\ TodayLines[k].data.symbol = symbol
    /\ TodayLines[k].data.decision \in {"APPROVED", "REJECTED", "GENERATED", "SKIPPED"}

C17_DecisionAudited ==
  \A i \in 1..Len(results) :
    (i < idx \/ (i = idx /\ scan_pc = "crashed")) => DecisionLogged(results[i].symbol)

(***************************************************************************)
(* C18: the risk amount of a sized position is capital x base risk % x     *)
(* regimeMultiplier(regime) x drawdownMultiplier(drawdown), and shares is  *)
(* floor(riskAmount / |entry - stop|).                                     *)
(***************************************************************************)
C18_RiskAmountScaled ==
  (position_size.called /\ position_size.via = "rm" /\ position_size.valid) =>
     /\ position_size.risk_amount * 1000000
          = RmCapital * RmRiskPerTrade * get_regime_multiplier(position_size.regime)
              * DrawdownMultiplierAt(position_size.peak_capital, position_size.current_capital)
     /\ position_size.shares = (2 * position_size.risk_amount) \div position_size.sl_distance2

(***************************************************************************)
(* C19: sizing a signal whose entry equals its stop loss returns an        *)
(* invalid result (valid False, 0 shares, a rejection reason) both from    *)
(* RiskManager.calculate_position_size and from POST /calculate-position.  *)
(***************************************************************************)
C19_ZeroStopRejected ==
  (position_size.called /\ position_size.zero_sl) =>
     /\ position_size.outcome = "result"
     /\ ~position_size.valid
     /\ position_size.shares = 0
     /\ position_size.rejection_reason # ""

(***************************************************************************)
(* C20: update_equity keeps peak_capital the running maximum of            *)
(* current_capital, so peak_capital >= current_capital, and                *)
(* get_drawdown_multiplier is the bracket of the drawdown recomputed from  *)
(* the two fields: 1.0 below 5%, 0.7 below 10%, 0.4 below 15%, else 0.2.   *)
(***************************************************************************)
ClaimedBracket ==
  LET lost == (peak_capital - current_capital) * 100
  IN IF lost < 5 * peak_capital THEN 100
     ELSE IF lost < 10 * peak_capital THEN 70
     ELSE IF lost < 15 * peak_capital THEN 40
     ELSE 20

C22_ScansSerialized == ~(scan_pc = "gate" /\ other_scan.scan_pc = "gate")

(***************************************************************************)
(* What the produce phase has collected, and the symbols whose worker      *)
(* failed: its analysis raised or it got no data.                          *)
(***************************************************************************)
ResultSymbols == {produce.results[i].symbol : i \in 1..Len(produce.results)}

FailedSymbols == {s \in Symbols : produce.outcome[s] \in {"nodata", "raised"}}

(***************************************************************************)
(* C23: a worker failure never aborts the scan: whichever symbols'         *)
(* analysis raises or has no data, a started produce phase terminates, and *)
(* when it has, it holds no candidate for the failed symbols and the       *)
(* candidate of every symbol whose worker returned one.                    *)
(***************************************************************************)
C23_FailuresIsolated ==
  /\ [](produce.pc = "produced" =>
          /\ ResultSymbols \cap FailedSymbols = {}
          /\ ResultSymbols = {s \in Symbols : produce.outcome[s] = "candidate"}
          /\ Len(produce.results) = Cardinality(ResultSymbols))
  /\ (produce.pc = "scanning" ~> produce.pc = "produced")

C23_Witness ==
  /\ produce.pc = "produced"
  /\ produce.outcome["HDFC"] = "raised"
  /\ produce.outcome["ICICI"] = "nodata"
  /\ ResultSymbols = {"SBI"}

(***************************************************************************)
(* The candidates one worker finds going through the universe in order,    *)
(* from the tracker state the scan started with.                           *)
(***************************************************************************)
RECURSIVE SequentialCandidates(_, _, _, _)
SequentialCandidates(i, regime, market, tr) ==
  IF i > Len(Universe) THEN {}
  ELSE LET r == AnalyzeStockSwing(Universe[i], regime, market, tr)
       IN (IF r.kind = "candidate" THEN {r.candidate} ELSE {})
            \cup SequentialCandidates(i + 1, regime, market, r.tracker)

HealthyTracker == [src \in SOURCES |-> NewMetrics]

(***************************************************************************)
(* C24: for a fixed universe and fixed market data the set of candidates   *)
(* the produce phase collects is the same for every worker-pool size (1,   *)
(* 10, 40) and every interleaving of the workers: it is the set a single   *)
(* worker collects.                                                        *)
(***************************************************************************)
C24_PoolSizeIndependent ==
  produce.pc = "produced" =>
    {produce.results[i] : i \in 1..Len(produce.results)}
      = SequentialCandidates(1, produce.regime, produce.market, HealthyTracker)

(***************************************************************************)
(* C25: one regime snapshot is obtained per scan and handed to every       *)
(* worker: every candidate of the scan was analysed against the snapshot   *)
(* the scan fetched at its start, whatever the index and the regime cache  *)
(* did in the meantime.                                                    *)
(***************************************************************************)
C25_RegimeLocked ==
  produce.pc # "idle" =>
    /\ produce.regime_fetches = 1
    /\ \A i \in 1..Len(produce.results) : produce.results[i].regime = produce.regime
    /\ \A future \in produce.completed :
         future.kind = "candidate" => future.candidate.regime = produce.regime

C25_Witness ==
  /\ produce.pc = "produced"
  /\ Len(produce.results) >= 2
  /\ nifty # produce.regime
  /\ regime_cache.fresh
  /\ regime_cache.regime # produce.regime

(***************************************************************************)
(* C28: verify_audit_chain never raises: for a missing file, an empty      *)
(* file, lines that are not JSON, JSON lines that are not objects and      *)
(* entries without hash or prev_hash it returns (isValid, errors), and     *)
(* isValid is False whenever errors is not empty.                          *)
(***************************************************************************)
C28_VerifyNeverRaises ==
  verify_result.done =>
    /\ ~verify_result.raised
    /\ verify_result.valid <=> (verify_result.errors = <<>>)

C28_Witness ==
  /\ verify_result.done
  /\ \E i \in 1..Len(TodayLines) : LineRaises(TodayLines[i])
  /\ ~verify_result.valid
  /\ \E k \in 1..Len(verify_result.errors) : verify_result.errors[k][2] = "file_read_error"


(***************************************************************************)
(* C26: filter_by_percentile returns its input unchanged when there are    *)
(* fewer than 5 candidates; with 5 or more it keeps at least one and keeps *)
(* exactly those whose score is at or above the score at position          *)
(* max(1, floor(n * (1 - percentile))) of the score-descending list, so    *)
(* every retained score is at or above every dropped score.                *)
(***************************************************************************)
CutoffIdxExact(n) == Max(1, ((100 - percentile) * n) \div 100)

ThresholdExact(rs) == SortDesc([i \in 1..Len(rs) |-> rs[i].score])[CutoffIdxExact(Len(rs))]

C26_PercentileFilter ==
  filter_call.done =>
    LET rs == filter_call.input
        out == filter_call.output
    IN /\ Len(rs) < 5 => out = rs
       /\ Len(rs) >= 5 =>
            /\ Len(out) >= 1
            /\ out = SelectSeq(rs, LAMBDA r : r.score >= ThresholdExact(rs))
       /\ \A i \in 1..Len(out) :
            \A j \in 1..Len(rs) :
              (\A k \in 1..Len(out) : out[k] # rs[j]) => out[i].score >= rs[j].score


(***************************************************************************)
(* C27: when rule 5 has to compute a correlation and the price history     *)
(* fails (the lookup raises, or there is no data for the candidate or for  *)
(* some open symbol), every pair the failure touches counts as             *)
(* uncorrelated: rule 5 blocks only on a pair whose data were both there   *)
(* and correlated above the threshold, and otherwise check_all_rules goes  *)
(* on to rule 6.                                                           *)
(***************************************************************************)
LookupRuns(c) ==
  /\ ~CheckDailyLoss /\ ~CheckWeeklyDrawdown /\ ~CheckCircuitBreaker
  /\ ~CheckConcentrationGate(c[1], c[2])
  /\ open_trades # <<>>
  /\ CacheKey(c[4]) \notin DOMAIN correlation_cache

FeedFails(symbol, feed) ==
  feed.raises \/ ~feed.has_data[symbol] \/ \E e \in OpenSymbols : ~feed.has_data[e]

CorrelatedPair(symbol, feed) ==
  \E e \in OpenSymbols :
    /\ ~feed.raises /\ feed.has_data[symbol] /\ feed.has_data[e]
    /\ feed.corr[e] > correlation_threshold

AmplyAligned(feed) == \A e \in CorrOpenSymbols : feed.overlap[e] = AmpleOverlap

C27_CorrelationFailOpen ==
  [][\A c \in RiskCandidates : \A feed \in {f \in FeedsFor(c[4]) : AmplyAligned(f)} :
       (LookupRuns(c) /\ FeedFails(c[4], feed) /\ CheckWithFeed(c, feed)) =>
          IF CorrelatedPair(c[4], feed)
          THEN gate_call'.outcome = "block" /\ gate_call'.rule = 5
          ELSE gate_call'.rule >= 6]_vars

C27_Witness ==
  /\ gate_call.called
  /\ Len(gate_call.open_before) = 2
  /\ gate_call.open_before = open_trades
  /\ gate_call.rule >= 6
  /\ CacheKey(gate_call.symbol) \notin DOMAIN correlation_cache


(***************************************************************************)
(* C29: for startDate <= endDate at most 365 days apart, the days list of  *)
(* get_compliance_report holds exactly one record for every calendar date  *)
(* from startDate to endDate, in ascending order, and no other record.     *)
(***************************************************************************)
IsLeap(y) == (y % 4 = 0 /\ y % 100 # 0) \/ y % 400 = 0

DaysInMonth(y, m) ==
  IF m = 2 THEN (IF IsLeap(y) THEN 29 ELSE 28)
  ELSE IF m \in {4, 6, 9, 11} THEN 30 ELSE 31

CalendarNext(date) ==
  IF date[3] < DaysInMonth(date[1], date[2]) THEN <<date[1], date[2], date[3] + 1>>
  ELSE IF date[2] < 12 THEN <<date[1], date[2] + 1, 1>>
  ELSE <<date[1] + 1, 1, 1>>

RECURSIVE CalendarDays(_, _)
CalendarDays(from, to) ==
  IF ~DateLE(from, to) THEN <<>> ELSE <<from>> \o CalendarDays(CalendarNext(from), to)

C29_OneRecordPerDay ==
  report.done =>
    [i \in 1..Len(report.days) |-> report.days[i].date]
      = CalendarDays(report.startDate, report.endDate)

(***************************************************************************)
(* C30: the report says "VERIFIED" only if every day's chain is valid: if  *)
(* the audit file of any calendar date from startDate to endDate exists    *)
(* and fails verify_audit_chain, chainIntegrityStatus is "COMPROMISED".    *)
(***************************************************************************)
C30_VerifiedOnlyIfAllValid ==
  report.done =>
    LET dates == CalendarDays(report.startDate, report.endDate)
        broken == \E i \in 1..Len(dates) :
                    FileOn(dates[i]).exists /\ ~VerifyAuditChain(FileOn(dates[i])).valid
    IN /\ report.chainIntegrityStatus \in {"VERIFIED", "COMPROMISED"}
       /\ broken => report.chainIntegrityStatus = "COMPROMISED"


(***************************************************************************)
(* C31: every operator reset of the circuit breaker writes a               *)
(* CIRCUIT_BREAKER_RESET entry that records the consecutive-loss count     *)
(* held immediately before the reset and the actor: appended to the day's  *)
(* audit file, or, when that append fails, to the fallback log.  A reset   *)
(* step is one that clears a positive count without a trade result.        *)
(***************************************************************************)
ResetStep ==
  /\ consecutive_losses > 0 /\ consecutive_losses' = 0
  /\ daily_pnl_r' = daily_pnl_r /\ weekly_pnl_r' = weekly_pnl_r

IsResetEntry(e, count) ==
  /\ e.kind = "entry"
  /\ e.event_type = "CIRCUIT_BREAKER_RESET"
  /\ e.data.n = count
  /\ e.data.reason = "API"

AppendedToFile ==
  /\ Len(files'[today].lines) = Len(TodayLines) + 1
  /\ SubSeq(files'[today].lines, 1, Len(TodayLines)) = TodayLines
  /\ IsResetEntry(files'[today].lines[Len(TodayLines) + 1], consecutive_losses)

AppendedToFallback ==
  /\ Len(fallback') = Len(fallback) + 1
  /\ SubSeq(fallback', 1, Len(fallback)) = fallback
  /\ IsResetEntry(fallback'[Len(fallback) + 1], consecutive_losses)

FailureRecorded(source) ==
  failure_tracker'[source].consecutive_failures = failure_tracker[source].consecutive_failures + 1

SuccessRecorded(source) ==
  /\ tr_out'.op = "record_success" /\ tr_out'.source = source
  /\ tr_pc[tr_out'.thread].at = "fetching" /\ tr_pc'[tr_out'.thread] = IdleCall

C33_FullStatusReturns ==
  \A t \in TrackerThreads :
    (tr_pc[t].at = "full_status") ~> (tr_pc[t] = IdleCall /\ tr_out.op = "get_full_status")

(***************************************************************************)
(* C38: a source marked DOWN stays DOWN, and skipped, until                *)
(* mark_source_healthy or a recorded success: no other step, and no        *)
(* record_failure in particular, changes its status.                       *)
(***************************************************************************)
C38_DownStaysDown ==
  [][\A source \in SOURCES :
       failure_tracker[source].status = "down" =>
          \/ /\ failure_tracker'[source].status = "down"
             /\ ShouldSkipSource(failure_tracker', source)
          \/ tr_out'.source = source /\ tr_out'.op \in {"mark_source_healthy", "record_success"}]_vars


(***************************************************************************)
(* C34: the maximum correlation a lookup computes (and caches) is the      *)
(* maximum over exactly the open symbols whose date-aligned return series  *)
(* with the candidate has 20 or more overlapping observations; a pair with *)
(* fewer contributes nothing.                                              *)
(***************************************************************************)
CountedPairs(symbol, feed) ==
  {e \in OpenSymbols : feed.has_data[e] /\ feed.overlap[e] >= 20}

C34_TwentyOverlapCounts ==
  [][\A c \in RiskCandidates : \A feed \in FeedsFor(c[4]) :
       (LookupRuns(c) /\ ~feed.raises /\ feed.has_data[c[4]] /\ CheckWithFeed(c, feed)) =>
          /\ CacheKey(c[4]) \in DOMAIN correlation_cache'
          /\ correlation_cache'[CacheKey(c[4])]
               = MaxOf({0} \cup {feed.corr[e] : e \in CountedPairs(c[4], feed)})]_vars


(***************************************************************************)
(* C35: the order in which the gate receives the candidates of a scan is   *)
(* fixed by the candidates alone: score-descending, candidates of equal    *)
(* score in the order the symbols were submitted, whatever the order in    *)
(* which the worker futures completed.                                     *)
(***************************************************************************)
C35_GateOrderFixed ==
  produce.pc = "produced" =>
    \A i, j \in 1..Len(produce.results) :
      i < j =>
        \/ produce.results[i].score > produce.results[j].score
        \/ /\ produce.results[i].score = produce.results[j].score
           /\ SymRank(produce.results[i].symbol) < SymRank(produce.results[j].symbol)

(***************************************************************************)
(* The swing branch of the gate loop in generate_signals, lines 396-449,   *)
(* as a function of the three verdicts it reads: valid is validate_signal, *)
(* allowed is the first component of check_all_rules' return value,        *)
(* ps_valid is PositionSize.valid.  logged is the sequence of              *)
(* SIGNAL_DECISION decisions written for the candidate, returned says      *)
(* whether the candidate is appended to final_results.                     *)
(***************************************************************************)
SwingDecisions(valid, allowed, ps_valid) ==
  LET is_valid == valid /\ allowed
      first == <<IF is_valid THEN "APPROVED" ELSE "REJECTED">>
  IN [logged |-> IF is_valid /\ ~ps_valid THEN first \o <<"REJECTED">> ELSE first,
      returned |-> is_valid /\ ps_valid]

Decisions(d) == {d.logged[k] : k \in 1..Len(d.logged)}

DeadRegimes == RiskRegimes \cup {S_DEAD}

NextDead ==
  \/ \E pnl \in RiskPnlInputs : RecordTradeResult(pnl)
  \/ ResetDaily
  \/ ResetWeekly
  \/ \E cur \in DeadRegimes : CheckRegimeTransition(current_regime, cur)
  \/ \E c \in RiskCandidates :
       CheckCandidate(c[1], c[2], c[3], c[4], 1000, [ok |-> FALSE, corr |-> 0])

SpecDead == Init /\ [][NextDead]_vars

(***************************************************************************)
(* C37: while the current regime is DEAD every call of check_all_rules     *)
(* returns blocked, whatever daily_pnl_r is: negative, zero or positive.   *)
(***************************************************************************)
C37_DeadBlocksAll ==
  (current_regime = S_DEAD /\ gate_call.called) => gate_call.outcome = "block"

(***************************************************************************)
(* The risk manager under regime labels of any spelling: upper case, lower *)
(* case, compound, and a label of neither table                            *)
(***************************************************************************)
NextLabels ==
  \/ \E cur \in LimitLabels : CheckRegimeTransition(current_regime, cur)
  \/ GetStatus
  \/ \E c \in RiskCandidates :
       CheckCandidate(c[1], c[2], c[3], c[4], 1000, [ok |-> FALSE, corr |-> 0])

SpecLabels == Init /\ [][NextLabels]_vars

(***************************************************************************)
(* C39: the daily-loss limit and the position-size multiplier reported for *)
(* a regime label come from the same row of the two tables (or both from   *)
(* the defaults when no row applies), for labels in any letter case and    *)
(* for compound labels.                                                    *)
(***************************************************************************)
C39_SameRegimeKey ==
  risk_status.called =>
    \/ \E i \in 1..Len(DAILY_LIMITS) :
         /\ REGIME_MULTIPLIERS[i][1] = DAILY_LIMITS[i][1]
         /\ risk_status.dailyLossLimitR = DAILY_LIMITS[i][2]
         /\ risk_status.regimeMultiplier = REGIME_MULTIPLIERS[i][2]
    \/ /\ risk_status.dailyLossLimitR = BaseDailyLimit
       /\ risk_status.regimeMultiplier = get_regime_multiplier(<<>>)

====
